---- MODULE Spec2Model ----
(***************************************************************************)
(* A model of src/prepare_data.py and src/utils.py (Squire_2022_CAFE-f6).  *)
(*                                                                         *)
(* Spec           prepare_dataset, called directly or through main         *)
(* SpecCmip       the CMIP6 openers _cmip6 and _cmip6_dcppA_hindcast       *)
(* SpecArea       the cell-area coordinate check of the EC-Earth3 openers  *)
(* SpecComposite  utils.composite_function                                 *)
(*                                                                         *)
(* External library calls (xarray, dask, zarr) are modelled by what the    *)
(* program can observe of them: they return, or they raise.                *)
(***************************************************************************)
EXTENDS Integers, Sequences, FiniteSets, TLC

\* ------------------------------------------------------------------ bounds

\* Largest number of identifiers in the 'prepare' section of a config.
MaxIds == 2
\* Largest number of realms in the 'uses' mapping of one identifier.
MaxUses == 2
\* Largest numbers of years, members and variables a CMIP6 opener is asked for.
MaxYears == 2
MaxMembers == 2
MaxVariables == 2
\* Largest number of (year, member, variable) whose files are not in DATA_DIR.
MaxMissing == 2
\* Largest length of a coordinate of ds or of the area file.
MaxLen == 2
\* Largest number of entries of a function_dict.
MaxFuncs == 2
\* Largest number of days of T at which both indices of the EHF are defined.
MaxDays == 2
\* Largest number of steps of the rainfall that have a 20-step accumulation.
MaxAccum == 3
\* Largest numbers of times of a timeseries, and of inits and leads of a hindcast.
MaxTimes == 3
MaxInits == 2
MaxLeads == 2
\* Largest number of dates of a coordinate that is rounded.
MaxDates == 2

\* --------------------------------------------------------------- constants

\* The identifiers a config may use as keys of 'prepare'; a store on disk is
\* <save_dir>/<name>.<identifier>.zarr, so for one save_dir and one name the
\* store names are in one-to-one correspondence with these.
IdSet == {"sst", "t_ref", "precip"}

\* Marks a key that the config does not have.
NoEntry == "<no entry>"

\* The callables of class _open that the list `methods` keeps
\* (prepare_data.py:716-721): every name without "__".
Methods ==
    {"JRA55", "HadISST", "EN422", "GPCP", "AGCD", "CAFEf6", "CAFEf5", "CAFE60v1",
     "CAFE_hist", "_cmip6_dcppA_hindcast", "CanESM5", "EC_Earth3", "HadGEM3",
     "_cmip6", "CanESM5_hist", "CanESM5_ctrl", "EC_Earth3_hist", "EC_Earth3_ctrl"}

\* The openers with the signature (variables, realm, preprocess).
PublicOpeners == Methods \ {"_cmip6", "_cmip6_dcppA_hindcast"}

\* Attributes that every class has; `methods` drops them ("__" in the name)
\* but hasattr(_open, name) is true for them.
DunderAttributes == {"__doc__"}

\* Mutant of HasAttr: the test of line 757 left out.
HasAttrUnchecked(name) == name = name

\* hasattr(_open, name), prepare_data.py:757.
HasAttr(name) == name \in Methods \cup DunderAttributes

\* The values of cfg['name'] the model draws from: a public opener, an
\* attribute of _open that is no opener, and a name _open does not have.
NameChoices == {"JRA55", "__doc__", "Nope"}

\* Realms: the key 'prepared' reads stores written earlier; any other key is
\* handed to the opener.  A 'uses' given as a list is stored under the key
\* None (prepare_data.py:733-734).
PreparedRealm == "prepared"
NoneRealm == "None"
RawRealms == {"atmos", "ocean"}

\* The exceptions the model distinguishes, by the statement that raises.
ErrNone == "none"
ErrNoName == "ValueError: no 'name' entry"
ErrNoPrepare == "ValueError: no variables to prepare"
ErrUnknownName == "ValueError: no method to open name"
ErrNotCallable == "TypeError: attribute cannot be called as an opener"
ErrOpener == "error raised in opener"
ErrStoreMissing == "error: prepared store not found"
ErrComposite == "error raised building a composite function"
ErrMerge == "error raised in xr.merge"
ErrApply == "error raised in apply"
ErrWrite == "error raised in to_zarr"
ErrClient == "error raised starting the client"
ErrGrid == "error raised generating grid files"

IsValueError(e) == e \in {ErrNoName, ErrNoPrepare, ErrUnknownName}

\* --------------------------------------------------------------- variables

VARIABLES
    \* inputs of prepare_dataset
    cfgName,        \* cfg['name'], or NoEntry
    cfgHasPrepare,  \* "prepare" in cfg
    ids,            \* the keys of cfg['prepare'], in order
    save,           \* the argument save
    disk0,          \* the stores in save_dir when the call starts
    \* state of prepare_dataset
    pc,             \* where the call is
    err,            \* the exception that left the call, or ErrNone
    i,              \* index in ids of the identifier being processed
    params,         \* cfg['prepare'][identifier] of that identifier
    j,              \* number of realms of params.uses already opened
    log,            \* what has been done for the current identifier
    parts,          \* the list ds before the merge
    prepared,       \* the list prepared
    disk,           \* the stores in save_dir
    writes,         \* per store, how often to_zarr was called on it
    \* state of main
    entry,          \* "direct" (prepare_dataset called) or "main"
    mainPc,         \* where main is
    client,         \* the dask client: "none", "running", "closed"
    gridFiles,      \* which of the two CAFE grid files exist
    cli,            \* the arguments of main (config, config_dir, save_dir)
    callArgs,       \* the arguments main passed to prepare_dataset
    \* the CMIP6 openers
    opener,         \* "_cmip6" or "_cmip6_dcppA_hindcast"
    experiment,     \* the argument experiment of _cmip6
    version,        \* the argument version: "latest" or a directory name
    years,          \* the argument years (<<0>> for _cmip6, which has none)
    members,        \* the argument members
    variables,      \* the argument variables
    fs,             \* per (year, member, variable), what is in DATA_DIR
    cmipPc,         \* where the opener is
    nVars,          \* number of variables the loop has gone through
    delayed,        \* the (year, member, variable) behind the delayed arrays
    cmipErr,        \* the exception that left the opener, or ErrNone
    cmipDs,         \* the variables of the dataset returned
    \* the cell-area check of the EC-Earth3 openers
    dsCoords,       \* the coordinates of ds
    areaOpened,     \* the coordinates of the area file as opened
    area,           \* the coordinates of area
    areaPc,         \* where the opener is
    nCoords,        \* number of coordinates the loop has gone through
    areaErr,        \* the exception that left the opener, or ErrNone
    assigned,       \* the coordinates of the dataset returned
    \* composite_function
    function_dict,  \* the argument: (function name, kwargs) in key order
    x,              \* the argument the composite is called with
    compPc,         \* where the caller is
    composed,       \* the function composite_function returned
    result,         \* what the composite returned for x
    compErr,        \* the exception raised, or ErrNone
    \* the transformations of utils.py
    call,           \* the function called and its arguments
    utilsPc,        \* where the call is
    local,          \* the local variables the function has assigned
    ret             \* what the call returned, or the exception it raised

cfgVars == <<cfgName, cfgHasPrepare, ids, save, disk0>>
runVars == <<pc, err, i, params, j, log, parts, prepared, disk, writes>>
mainVars == <<entry, mainPc, client, gridFiles, cli, callArgs>>
prepareVars == <<cfgVars, runVars, mainVars>>
cmipVars ==
    <<opener, experiment, version, years, members, variables, fs, cmipPc,
      nVars, delayed, cmipErr, cmipDs>>
areaVars ==
    <<dsCoords, areaOpened, area, areaPc, nCoords, areaErr, assigned>>
compVars == <<function_dict, x, compPc, composed, result, compErr>>
utilsVars == <<call, utilsPc, local, ret>>
vars == <<prepareVars, cmipVars, areaVars, compVars, utilsVars>>

\* What the actions of one part leave alone: the variables of the others.
outsidePrepare == <<cmipVars, areaVars, compVars, utilsVars>>
outsideCmip == <<prepareVars, areaVars, compVars, utilsVars>>
outsideArea == <<prepareVars, cmipVars, compVars, utilsVars>>
outsideComposite == <<prepareVars, cmipVars, areaVars, utilsVars>>
outsideUtils == <<prepareVars, cmipVars, areaVars, compVars>>

\* ------------------------------------------------------------------ inputs

\* Sequences over S of length lo..hi without repeated elements.
InjSeqs(S, lo, hi) ==
    {s \in UNION {[1..n -> S] : n \in lo..hi} :
        \A a, b \in DOMAIN s : a # b => s[a] # s[b]}

\* One entry of 'uses': the realm and, for 'prepared', the list of stores read.
Use(realm, vs) == [realm |-> realm, vars |-> vs]

UseChoices ==
    {Use(r, <<>>) : r \in RawRealms}
        \cup {Use(PreparedRealm, <<v>>) : v \in IdSet}

\* 'uses' as a mapping (distinct keys, in order) or as a list.
UsesChoices ==
    {s \in UNION {[1..n -> UseChoices] : n \in 1..MaxUses} :
        \A a, b \in DOMAIN s : a # b => s[a].realm # s[b].realm}
        \cup {<<Use(NoneRealm, <<>>)>>}

ParamsChoices ==
    [uses : UsesChoices, preprocess : BOOLEAN, apply : BOOLEAN]

NoParams == [uses |-> <<>>, preprocess |-> FALSE, apply |-> FALSE]

\* ------------------------------------------------------------------ events

Ev(e, r) == [ev |-> e, r |-> r]

\* ---------------------------------------------------------- prepare_dataset

\* Mutant of Raise: the error is recorded and the loop goes on with the next
\* identifier.
RaiseAndContinue(e) ==
    /\ pc' = "loop"
    /\ err' = e

\* An exception leaves prepare_dataset: nothing in it catches one.
Raise(e) ==
    /\ pc' = "raised"
    /\ err' = e

\* Mutant of CheckConfig: the test for 'name' (line 723) left out.
CheckConfigNameUnchecked ==
    /\ pc = "start"
    /\ IF cfgHasPrepare
         THEN pc' = "loop" /\ err' = err
         ELSE Raise(ErrNoPrepare)
    /\ UNCHANGED <<i, params, j, log, parts, prepared, disk, writes>>
    /\ UNCHANGED <<cfgVars, mainVars, outsidePrepare>>

\* Mutant of CheckConfig: a config without 'prepare' returns the empty list.
CheckConfigEmptyWithoutPrepare ==
    /\ pc = "start"
    /\ IF cfgName = NoEntry
         THEN Raise(ErrNoName)
         ELSE IF cfgHasPrepare
                THEN pc' = "loop" /\ err' = err
                ELSE pc' = "returned" /\ err' = err
    /\ UNCHANGED <<i, params, j, log, parts, prepared, disk, writes>>
    /\ UNCHANGED <<cfgVars, mainVars, outsidePrepare>>

\* prepare_data.py:711-729 and 778-779.
CheckConfig ==
    /\ pc = "start"
    /\ IF cfgName = NoEntry
         THEN Raise(ErrNoName)
         ELSE IF cfgHasPrepare
                THEN pc' = "loop" /\ err' = err
                ELSE Raise(ErrNoPrepare)
    /\ UNCHANGED <<i, params, j, log, parts, prepared, disk, writes>>
    /\ UNCHANGED <<cfgVars, mainVars, outsidePrepare>>

\* prepare_data.py:731-743: the next item of cfg['prepare'] and its composite
\* preprocess function, which composite_function may fail to build.
NextIdentifier ==
    /\ pc = "loop"
    /\ i < Len(ids)
    /\ \E p \in ParamsChoices :
        /\ params' = p
        /\ \/ pc' = "open" /\ err' = err
           \/ p.preprocess /\ Raise(ErrComposite)
    /\ i' = i + 1
    /\ j' = 0
    /\ log' = <<>>
    /\ parts' = <<>>
    /\ UNCHANGED <<prepared, disk, writes>>
    /\ UNCHANGED <<cfgVars, mainVars, outsidePrepare>>

\* What the opener returns: the realm, whether preprocess ran on it, and for
\* 'prepared' the stores as read from disk.
Part(realm, pre, src) == [realm |-> realm, pre |-> pre, src |-> src]

\* Mutant of OpenPrepared: a store that is not on disk is not noticed when it
\* is opened.
OpenPreparedUnchecked(u) ==
    /\ log' = Append(log, Ev("read", j + 1))
    /\ parts' = Append(parts,
           Part(u.realm, FALSE, [k \in DOMAIN u.vars |-> disk[u.vars[k]]]))
    /\ j' = j + 1
    /\ UNCHANGED <<pc, err>>

\* prepare_data.py:745-755: the stores of the realm 'prepared' are opened
\* without preprocess; a store that is not on disk makes open_zarr raise.
OpenPrepared(u) ==
    IF \E k \in DOMAIN u.vars : disk[u.vars[k]] = "absent"
      THEN /\ log' = Append(log, Ev("read", j + 1))
           /\ Raise(ErrStoreMissing)
           /\ UNCHANGED <<j, parts>>
      ELSE /\ log' = Append(log, Ev("read", j + 1))
           /\ parts' = Append(parts,
                  Part(u.realm, FALSE, [k \in DOMAIN u.vars |-> disk[u.vars[k]]]))
           /\ j' = j + 1
           /\ UNCHANGED <<pc, err>>

\* prepare_data.py:36-49 (and every other public opener): the data are
\* opened and, if preprocess is not None, preprocess is applied to them
\* before they are returned.  Either step may raise.
CallOpener(u) ==
    \/ /\ log' = log \o <<Ev("open", j + 1)>>
                     \o (IF params.preprocess
                           THEN <<Ev("preprocess", j + 1)>> ELSE <<>>)
       /\ parts' = Append(parts, Part(u.realm, params.preprocess, <<>>))
       /\ j' = j + 1
       /\ UNCHANGED <<pc, err>>
    \/ /\ log' = Append(log, Ev("open", j + 1))
       /\ Raise(ErrOpener)
       /\ UNCHANGED <<j, parts>>

\* prepare_data.py:756-762.
OpenRaw(u) ==
    IF HasAttr(cfgName)
      THEN IF cfgName \in PublicOpeners
             THEN CallOpener(u)
             ELSE /\ Raise(ErrNotCallable)
                  /\ UNCHANGED <<j, log, parts>>
      ELSE /\ Raise(ErrUnknownName)
           /\ UNCHANGED <<j, log, parts>>

\* prepare_data.py:744-762: one pass of the loop over input_variables.
OpenRealm ==
    /\ pc = "open"
    /\ j < Len(params.uses)
    /\ LET u == params.uses[j + 1] IN
         IF u.realm = PreparedRealm THEN OpenPrepared(u) ELSE OpenRaw(u)
    /\ UNCHANGED <<i, params, prepared, disk, writes>>
    /\ UNCHANGED <<cfgVars, mainVars, outsidePrepare>>

\* Mutant of Merge: the merge does not wait for the loop over the realms.
MergeEarly ==
    /\ pc = "open"
    /\ log' = Append(log, Ev("merge", 0))
    /\ pc' = "apply"
    /\ UNCHANGED <<err, i, params, j, parts, prepared, disk, writes>>
    /\ UNCHANGED <<cfgVars, mainVars, outsidePrepare>>

\* prepare_data.py:763.
Merge ==
    /\ pc = "open"
    /\ j = Len(params.uses)
    /\ log' = Append(log, Ev("merge", 0))
    /\ \/ pc' = "apply" /\ err' = err
       \/ Len(parts) > 1 /\ Raise(ErrMerge)
    /\ UNCHANGED <<i, params, j, parts, prepared, disk, writes>>
    /\ UNCHANGED <<cfgVars, mainVars, outsidePrepare>>

\* prepare_data.py:765-766.
Apply ==
    /\ pc = "apply"
    /\ IF params.apply
         THEN /\ log' = Append(log, Ev("apply", 0))
              /\ \/ pc' = "save" /\ err' = err
                 \/ Raise(ErrApply)
         ELSE /\ pc' = "save"
              /\ UNCHANGED <<err, log>>
    /\ UNCHANGED <<i, params, j, parts, prepared, disk, writes>>
    /\ UNCHANGED <<cfgVars, mainVars, outsidePrepare>>

\* What a to_zarr(mode="w") that raises can leave of the store: the store
\* untouched (it raised before the store was opened), or an incomplete store
\* (mode "w" has removed the earlier store; nothing rolls the write back).
WriteResidue(id) == {disk, [disk EXCEPT ![id] = "partial"]}

\* Mutant of SaveTarget: every identifier is written to the first one's store.
SaveTargetFirst == ids[1]

\* prepare_data.py:773: the store written for the current identifier,
\* <save_dir>/<cfg['name']>.<identifier>.zarr.
SaveTarget == ids[i]

\* prepare_data.py:768-773.
Save ==
    /\ pc = "save"
    /\ prepared' = Append(prepared, ids[i])
    /\ IF save
         THEN /\ log' = Append(log, Ev("write", 0))
              /\ writes' = [writes EXCEPT ![SaveTarget] = @ + 1]
              /\ \/ /\ disk' = [disk EXCEPT ![SaveTarget] = "new"]
                    /\ pc' = "loop"
                    /\ err' = err
                 \/ /\ disk' \in WriteResidue(SaveTarget)
                    /\ Raise(ErrWrite)
         ELSE /\ pc' = "loop"
              /\ UNCHANGED <<err, log, writes, disk>>
    /\ UNCHANGED <<i, params, j, parts>>
    /\ UNCHANGED <<cfgVars, mainVars, outsidePrepare>>

\* prepare_data.py:775-776.
Return ==
    /\ pc = "loop"
    /\ i = Len(ids)
    /\ pc' = "returned"
    /\ UNCHANGED <<err, i, params, j, log, parts, prepared, disk, writes>>
    /\ UNCHANGED <<cfgVars, mainVars, outsidePrepare>>

\* --------------------------------------------------------------------- main

\* prepare_data.py:819-830: the defaults of --config_dir and --save_dir, and
\* the config file the model gives as the argument config.
ConfigDir == "config/prepare_data"
SaveDir == "data/processed/"
ConfigFiles == {"JRA55.yml"}

NoArgs == [config |-> <<>>, save_dir |-> "", save |-> FALSE]
NoCli == [config |-> "", config_dir |-> "", save_dir |-> ""]

\* prepare_data.py:798-799: the client is created; entering the with block
\* is what starts it.
StartClient ==
    /\ mainPc = "init"
    /\ \/ client' = "running" /\ mainPc' = "grid" /\ err' = err
       \/ client' = client /\ mainPc' = "exited" /\ err' = ErrClient
    /\ UNCHANGED <<pc, i, params, j, log, parts, prepared, disk, writes>>
    /\ UNCHANGED <<cfgVars, entry, gridFiles, cli, callArgs, outsidePrepare>>

\* prepare_data.py:622-676: each grid file that does not exist is generated;
\* generating it may raise, and the with block then closes the client.
GenerateGridFiles ==
    /\ mainPc = "grid"
    /\ \/ /\ gridFiles' = {"atmos", "ocean"}
          /\ mainPc' = "prepare"
          /\ UNCHANGED <<client, err>>
       \/ /\ "atmos" \notin gridFiles
          /\ gridFiles' = gridFiles
          /\ mainPc' = "exited" /\ client' = "closed" /\ err' = ErrGrid
       \/ /\ "ocean" \notin gridFiles
          /\ gridFiles' = gridFiles \cup {"atmos"}
          /\ mainPc' = "exited" /\ client' = "closed" /\ err' = ErrGrid
    /\ UNCHANGED <<pc, i, params, j, log, parts, prepared, disk, writes>>
    /\ UNCHANGED <<cfgVars, entry, cli, callArgs, outsidePrepare>>

\* prepare_data.py:803-804.
CallPrepare ==
    /\ mainPc = "prepare"
    /\ pc = "idle"
    /\ pc' = "start"
    /\ callArgs' = [config |-> <<cli.config_dir, "/", cli.config>>,
                    save_dir |-> cli.save_dir, save |-> TRUE]
    /\ UNCHANGED <<err, i, params, j, log, parts, prepared, disk, writes>>
    /\ UNCHANGED <<cfgVars, entry, mainPc, client, gridFiles, cli, outsidePrepare>>

\* Mutant of ExitMain: the client is closed on the normal path only.
ExitMainLeaksOnError ==
    /\ mainPc = "prepare"
    /\ pc \in {"returned", "raised"}
    /\ mainPc' = "exited"
    /\ client' = (IF pc = "returned" THEN "closed" ELSE client)
    /\ UNCHANGED <<cfgVars, runVars, entry, gridFiles, cli, callArgs, outsidePrepare>>

\* prepare_data.py:799: leaving the with block, by return or by exception,
\* closes the client.
ExitMain ==
    /\ mainPc = "prepare"
    /\ pc \in {"returned", "raised"}
    /\ mainPc' = "exited"
    /\ client' = "closed"
    /\ UNCHANGED <<cfgVars, runVars, entry, gridFiles, cli, callArgs, outsidePrepare>>


\* --------------------------------------------------------- the CMIP6 openers

ErrExperiment == "ValueError: I'm not sure I can open this experiment type"
ErrNoVersions == "ValueError: No versions found"
ErrNoFiles == "ValueError: No files found"

\* What DATA_DIR holds for one (year, member, variable): files that match the
\* file pattern, no version directory at all, or version directories with no
\* file that matches.
FilesOk == "files"
NoVersionDir == "no version directory"
NoMatchingFile == "no matching file"

\* prepare_data.py:184-202 (_dcpp_file) and 405-431 (_cmip_files): the files
\* of one (year, member, variable), or the ValueError raised for them.
FileLookup(key) ==
    IF opener = "_cmip6" /\ experiment \notin {"historical", "piControl"}
      THEN ErrExperiment
      ELSE IF version = "latest" /\ fs[key] = NoVersionDir
             THEN ErrNoVersions
             ELSE IF fs[key] # FilesOk THEN ErrNoFiles ELSE FilesOk

\* Mutant of DelayedLookup: the delayed open does not look the files up.
DelayedLookupSkipped(key) == FilesOk

\* prepare_data.py:204-206 and 433-435: the delayed open looks the files of
\* its own (year, member, variable) up when it is computed.
DelayedLookup(key) == FileLookup(key)

\* Every (year, member, variable) the call asks for.
Requested ==
    {<<years[a], members[b], variables[c]>> :
        a \in DOMAIN years, b \in DOMAIN members, c \in DOMAIN variables}

\* prepare_data.py:216-231 and 445-452: one pass of the loop over variables.
\* The files of the first (year and) member are looked up at once; the opens
\* of all (years and) members are built as delayed arrays.
CmipVariable ==
    /\ cmipPc = "loop"
    /\ nVars < Len(variables)
    /\ LET v == variables[nVars + 1]
           first == FileLookup(<<years[1], members[1], v>>)
       IN IF first = FilesOk
            THEN /\ delayed' = delayed \cup
                        {<<years[a], members[b], v>> :
                            a \in DOMAIN years, b \in DOMAIN members}
                 /\ nVars' = nVars + 1
                 /\ UNCHANGED <<cmipPc, cmipErr>>
            ELSE /\ cmipPc' = "raised"
                 /\ cmipErr' = first
                 /\ UNCHANGED <<nVars, delayed>>
    /\ UNCHANGED <<opener, experiment, version, years, members, variables, fs,
                   cmipDs>>
    /\ UNCHANGED outsideCmip

\* prepare_data.py:260 and 466: xr.merge(ds).compute() runs every delayed
\* open; the exception of one that raises leaves compute().
CmipCompute ==
    /\ cmipPc = "loop"
    /\ nVars = Len(variables)
    /\ LET failed == {k \in delayed : DelayedLookup(k) # FilesOk} IN
         IF failed = {}
           THEN /\ cmipPc' = "returned"
                /\ cmipDs' = {k[3] : k \in delayed}
                /\ cmipErr' = cmipErr
           ELSE /\ cmipPc' = "raised"
                /\ cmipErr' \in {DelayedLookup(k) : k \in failed}
                /\ cmipDs' = cmipDs
    /\ UNCHANGED <<opener, experiment, version, years, members, variables, fs,
                   nVars, delayed>>
    /\ UNCHANGED outsideCmip

\* The subsets of S with at most n elements.
RECURSIVE SubsetsUpTo(_, _)
SubsetsUpTo(S, n) ==
    IF n = 0
      THEN {{}}
      ELSE LET smaller == SubsetsUpTo(S, n - 1)
           IN smaller \cup {t \cup {e} : t \in smaller, e \in S}

CmipInit ==
    /\ opener \in {"_cmip6", "_cmip6_dcppA_hindcast"}
    /\ experiment \in (IF opener = "_cmip6"
                         THEN {"historical", "piControl", "ssp245"}
                         ELSE {"dcppA-hindcast"})
    /\ version \in {"latest", "v20190429"}
    /\ years \in (IF opener = "_cmip6"
                    THEN {<<0>>}
                    ELSE {[a \in 1..n |-> 1959 + a] : n \in 1..MaxYears})
    /\ members \in {[b \in 1..n |-> b] : n \in 1..MaxMembers}
    /\ variables \in {[c \in 1..n |-> c] : n \in 1..MaxVariables}
    /\ \E missing \in SubsetsUpTo(Requested, MaxMissing) :
         \E how \in [missing -> {NoVersionDir, NoMatchingFile}] :
            fs = [k \in Requested |-> IF k \in missing THEN how[k] ELSE FilesOk]
    /\ cmipPc = "loop"
    /\ nVars = 0
    /\ delayed = {}
    /\ cmipErr = ErrNone
    /\ cmipDs = {}

CmipIdle ==
    /\ opener = "" /\ experiment = "" /\ version = ""
    /\ years = <<>> /\ members = <<>> /\ variables = <<>>
    /\ fs = <<>>
    /\ cmipPc = "idle" /\ nVars = 0 /\ delayed = {}
    /\ cmipErr = ErrNone /\ cmipDs = {}

\* ------------------------------------- the EC-Earth3 openers' cell-area check

\* rtol of npt.assert_allclose is 1 / RtolInv.
RtolInv == 1000000

ErrAssertion == "AssertionError: Not equal to tolerance"
ErrAssign == "ValueError raised in assign_coords"

\* The coordinates of the area file, in the order of area.coords.
CoordNames == <<"lat", "lon">>

\* Coordinate values are integers (the values in some small unit); three
\* values that are pairwise close, one step apart within rtol and two steps
\* apart beyond it.
CoordValues == {RtolInv, RtolInv + 1, RtolInv + 2}
\* A coordinate is a grid axis: its values are in ascending order.
CoordArrays ==
    {a \in UNION {[1..n -> CoordValues] : n \in 1..MaxLen} :
        \A k \in 1..(Len(a) - 1) : a[k] <= a[k + 1]}
\* A coordinate the dataset does not have.
NoCoord == <<>>

Abs(n) == IF n < 0 THEN -n ELSE n

\* numpy broadcasting of two 1-d arrays: equal lengths, or one of length 1.
Broadcastable(a, b) == Len(a) = Len(b) \/ Len(a) = 1 \/ Len(b) = 1
At(a, k) == IF Len(a) = 1 THEN a[1] ELSE a[k]
Longer(a, b) == IF Len(a) >= Len(b) THEN Len(a) ELSE Len(b)

\* np.array_equiv(a1, a2): the shapes broadcast and all elements are equal.
ArrayEquiv(a1, a2) ==
    /\ Broadcastable(a1, a2)
    /\ \A k \in 1..Longer(a1, a2) : At(a1, k) = At(a2, k)

\* Mutant of AllClose: rtol=1e-05.
AllCloseRtol5(actual, desired) ==
    /\ Len(actual) = Len(desired)
    /\ \A k \in DOMAIN actual :
         Abs(actual[k] - desired[k]) * RtolInv <= 10 * Abs(desired[k])

\* npt.assert_allclose(actual, desired, rtol=1e-06) does not raise: the
\* shapes are the same and |actual - desired| <= rtol * |desired| everywhere.
AllClose(actual, desired) ==
    /\ Len(actual) = Len(desired)
    /\ \A k \in DOMAIN actual :
         Abs(actual[k] - desired[k]) * RtolInv <= Abs(desired[k])

\* prepare_data.py:323-329, 564-570 and 602-608: one pass of the loop over
\* area.coords.
AreaCheckCoord ==
    /\ areaPc = "loop"
    /\ nCoords < Len(CoordNames)
    /\ LET c == CoordNames[nCoords + 1] IN
         IF areaOpened[c] # NoCoord /\ dsCoords[c] # NoCoord
              /\ ~ArrayEquiv(dsCoords[c], area[c])
           THEN IF AllClose(dsCoords[c], area[c])
                  THEN /\ area' = [area EXCEPT ![c] = dsCoords[c]]
                       /\ nCoords' = nCoords + 1
                       /\ UNCHANGED <<areaPc, areaErr>>
                  ELSE /\ areaPc' = "raised"
                       /\ areaErr' = ErrAssertion
                       /\ UNCHANGED <<area, nCoords>>
           ELSE /\ nCoords' = nCoords + 1
                /\ UNCHANGED <<area, areaPc, areaErr>>
    /\ UNCHANGED <<dsCoords, areaOpened, assigned>>
    /\ UNCHANGED outsideArea

\* prepare_data.py:331-336, 572-577 and 610-615: the coordinates of area are
\* assigned to ds, which is returned (after preprocess).  xarray may refuse
\* a coordinate whose length is not that of the data's.
AreaAssign ==
    /\ areaPc = "loop"
    /\ nCoords = Len(CoordNames)
    /\ \/ /\ assigned' = [c \in DOMAIN area |->
                            IF area[c] # NoCoord THEN area[c] ELSE dsCoords[c]]
          /\ areaPc' = "returned"
          /\ areaErr' = areaErr
       \/ /\ \E c \in DOMAIN area :
                /\ area[c] # NoCoord /\ dsCoords[c] # NoCoord
                /\ Len(area[c]) # Len(dsCoords[c])
          /\ areaPc' = "raised"
          /\ areaErr' = ErrAssign
          /\ assigned' = assigned
    /\ UNCHANGED <<dsCoords, areaOpened, area, nCoords>>
    /\ UNCHANGED outsideArea

CoordSet == {CoordNames[k] : k \in DOMAIN CoordNames}
NoCoords == [c \in CoordSet |-> NoCoord]

AreaInit ==
    /\ dsCoords \in [CoordSet -> CoordArrays \cup {NoCoord}]
    /\ areaOpened \in [CoordSet -> CoordArrays \cup {NoCoord}]
    /\ area = areaOpened
    /\ areaPc = "loop"
    /\ nCoords = 0
    /\ areaErr = ErrNone
    /\ assigned = NoCoords

AreaIdle ==
    /\ dsCoords = NoCoords /\ areaOpened = NoCoords /\ area = NoCoords
    /\ areaPc = "idle" /\ nCoords = 0 /\ areaErr = ErrNone
    /\ assigned = NoCoords


\* -------------------------------------------------------- composite_function

ErrAttribute == "AttributeError: module has no such function"

\* Names of functions of utils.py that configs compose, and a name that
\* utils.py does not define.
ModuleFunctions == {"convert", "rename", "anomalise"}
FunctionNames == ModuleFunctions \cup {"no_such_function"}

\* A kwargs value of a function_dict: None, or a dictionary (a set of
\* <<keyword, value>>).
NoneKwargs == [none |-> TRUE, kw |-> {}]
Kwargs(kw) == [none |-> FALSE, kw |-> kw]
KwargsChoices == {NoneKwargs, Kwargs({}), Kwargs({<<"a", 1>>})}

\* A function_dict: distinct function names in key order, each with kwargs.
FunctionDicts ==
    {d \in UNION {[1..n -> [fn : FunctionNames, kws : KwargsChoices]] :
                     n \in 0..MaxFuncs} :
        \A a, b \in DOMAIN d : a # b => d[a].fn # d[b].fn}

\* The values the functions work on.  A module function is any function of a
\* dataset and keyword arguments: its result is modelled as the term
\* fn(value, **kw), here the value with the call added to its history, so that
\* two results agree only if the same calls were made in the same order.
Datasets == {<<"ds_a">>, <<"ds_b">>}
ModuleCall(fn, kw, value) == Append(value, <<fn, kw>>)

\* The function objects of utils.py:42-53, by how they were made.
Identity == [tag |-> "lambda x: x"]
Partial(fn, kw) == [tag |-> "partial", fn |-> fn, kw |-> kw]

\* Mutant of Compose: lambda x: f(g(x)).
ComposeReversed(f, g) == [tag |-> "compose", f |-> g, g |-> f]

\* utils.py:43-44: compose(f, g) is lambda x: g(f(x)).
Compose(f, g) == [tag |-> "compose", f |-> f, g |-> g]

\* Calling one of these function objects.
RECURSIVE Call(_, _)
Call(f, value) ==
    CASE f.tag = "lambda x: x" -> value
      [] f.tag = "partial" -> ModuleCall(f.fn, f.kw, value)
      [] f.tag = "compose" -> Call(f.g, Call(f.f, value))

\* functools.reduce(compose, funcs, initial), utils.py:46.
RECURSIVE Reduce(_, _)
Reduce(funcs, acc) ==
    IF funcs = <<>> THEN acc ELSE Reduce(Tail(funcs), Compose(acc, Head(funcs)))

\* utils.py:42-46.
Composite(funcs) == Reduce(funcs, Identity)

\* utils.py:50-51: kws = {} if kws is None else kws.
KwargsOrEmpty(kws) == IF kws.none THEN {} ELSE kws.kw

\* utils.py:48-54: the list funcs.
Partials(d) == [k \in DOMAIN d |-> Partial(d[k].fn, KwargsOrEmpty(d[k].kws))]

\* utils.py:30-56: composite_function(function_dict).  getattr raises for a
\* name that the module does not define.
CompositeFunction ==
    /\ compPc = "start"
    /\ IF \E k \in DOMAIN function_dict : function_dict[k].fn \notin ModuleFunctions
         THEN /\ compPc' = "raised"
              /\ compErr' = ErrAttribute
              /\ composed' = composed
         ELSE /\ compPc' = "built"
              /\ composed' = Composite(Partials(function_dict))
              /\ compErr' = compErr
    /\ UNCHANGED <<function_dict, x, result>>
    /\ UNCHANGED outsideComposite

\* prepare_data.py:47 and 766: the composite is called on a dataset.
CallComposite ==
    /\ compPc = "built"
    /\ result' = Call(composed, x)
    /\ compPc' = "called"
    /\ UNCHANGED <<function_dict, x, composed, compErr>>
    /\ UNCHANGED outsideComposite

CompositeInit ==
    /\ function_dict \in FunctionDicts
    /\ x \in Datasets
    /\ compPc = "start"
    /\ composed = Identity
    /\ result = <<>>
    /\ compErr = ErrNone

CompositeIdle ==
    /\ function_dict = <<>> /\ x = <<>>
    /\ compPc = "idle" /\ composed = Identity /\ result = <<>>
    /\ compErr = ErrNone

\* ------------------------------------------------ utils.py: numbers and arrays

\* A value of an array: a rational number n/d (d > 0, in lowest terms), or
\* what floating point gives where there is none: NaN (0/0), inf (1/0) and
\* -inf (-1/0).
RECURSIVE GCD(_, _)
GCD(a, b) == IF b = 0 THEN a ELSE GCD(b, a % b)
Sign(n) == IF n > 0 THEN 1 ELSE IF n < 0 THEN -1 ELSE 0
Rat(n, d) ==
    IF d = 0
      THEN [n |-> Sign(n), d |-> 0]
      ELSE LET g == GCD(Abs(n), Abs(d)) IN
             [n |-> (Sign(d) * n) \div g, d |-> Abs(d) \div g]
Num(n) == [n |-> n, d |-> 1]
NaN == [n |-> 0, d |-> 0]
IsNaN(a) == a = NaN
IsFinite(a) == a.d # 0

\* Floating point arithmetic, as far as the rationals and NaN/inf carry it.
RNeg(a) == [n |-> -a.n, d |-> a.d]
RAdd(a, b) ==
    IF IsFinite(a) /\ IsFinite(b) THEN Rat(a.n * b.d + b.n * a.d, a.d * b.d)
    ELSE IF IsNaN(a) \/ IsNaN(b) THEN NaN
    ELSE IF ~IsFinite(a) /\ ~IsFinite(b) THEN (IF a = b THEN a ELSE NaN)
    ELSE IF IsFinite(a) THEN b ELSE a
RSub(a, b) == RAdd(a, RNeg(b))
RMul(a, b) ==
    IF IsNaN(a) \/ IsNaN(b) THEN NaN ELSE Rat(a.n * b.n, a.d * b.d)
RDiv(a, b) ==
    IF IsNaN(a) \/ IsNaN(b) THEN NaN
    ELSE IF ~IsFinite(b) THEN (IF IsFinite(a) THEN Num(0) ELSE NaN)
    ELSE IF ~IsFinite(a) THEN (IF b.n < 0 THEN RNeg(a) ELSE a)
    ELSE Rat(a.n * b.d, a.d * b.n)
\* a < b and a > b; every comparison with NaN is false.
RLess(a, b) ==
    /\ ~IsNaN(a) /\ ~IsNaN(b) /\ a # b
    /\ IF IsFinite(a) /\ IsFinite(b) THEN a.n * b.d < b.n * a.d
       ELSE IF ~IsFinite(a) THEN a.n < 0 ELSE b.n > 0
RGreater(a, b) == RLess(b, a)

\* The sum of the elements of a sequence of values.
RECURSIVE RSum(_)
RSum(s) == IF s = <<>> THEN Num(0) ELSE RAdd(Head(s), RSum(Tail(s)))

\* No function of utils.py is being called.
NoCall == [fn |-> "none"]
NoLocal == [none |-> TRUE]
NoRet == [kind |-> "none"]
Returned(v) == [kind |-> "return", value |-> v]
Raised(e) == [kind |-> "raise", error |-> e]
UtilsIdle ==
    /\ call = NoCall /\ utilsPc = "idle" /\ local = NoLocal /\ ret = NoRet

\* A timeseries: the entries in the order of the time coordinate, each the
\* time (a day number) and the value there.
Entry(t, v) == [t |-> t, v |-> v]
Values(ts) == [k \in DOMAIN ts |-> ts[k].v]
Mean(s) == RDiv(RSum(s), Num(Len(s)))

\* .rolling({dim: window}, min_periods=window).mean(): the mean of the window
\* that ends at each position, NaN where the window is not full or holds a
\* NaN.
RollingMeanOf(s, window) ==
    [k \in DOMAIN s |->
        IF k < window THEN NaN ELSE Mean(SubSeq(s, k - window + 1, k))]

\* .shift({dim: n}): position k gets the value of position k - n, NaN where
\* there is none.
Shift(s, n) ==
    [k \in DOMAIN s |-> IF k - n \in DOMAIN s THEN s[k - n] ELSE NaN]

\* The positions of value v in sequence s.
Where(s, v) == {k \in DOMAIN s : s[k] = v}

\* The values of a sequence in ascending order.
RECURSIVE Insert(_, _)
Insert(v, s) ==
    IF s = <<>> THEN <<v>>
    ELSE IF RLess(Head(s), v) THEN <<Head(s)>> \o Insert(v, Tail(s))
    ELSE <<v>> \o s
RECURSIVE Sorted(_)
Sorted(s) == IF s = <<>> THEN <<>> ELSE Insert(Head(s), Sorted(Tail(s)))

\* .quantile(q = qn/qd) of numpy, linear interpolation: the value at the
\* position q * (n - 1) of the sorted values.
Quantile(s, qn, qd) ==
    IF s = <<>> THEN NaN
    ELSE LET v == Sorted(s)
             h == qn * (Len(s) - 1)
             lo == h \div qd
             frac == Rat(h % qd, qd)
         IN IF lo + 1 >= Len(s) THEN v[Len(s)]
            ELSE RAdd(v[lo + 1], RMul(frac, RSub(v[lo + 2], v[lo + 1])))

\* Mutant of KeepPeriodTime: every time is kept.
KeepAllTimes(ts, period) == ts

\* keep_period on a timeseries, utils.py:1019-1020:
\* ds.sel(time=slice(period[0], period[1])).
KeepPeriodTime(ts, period) ==
    SelectSeq(ts, LAMBDA e : period[1] <= e.t /\ e.t <= period[2])

\* ------------------------------------------------------------- calculate_EHF

\* The windows of the two rolling means, utils.py:606 and 609.
Window3 == 3
Window30 == 30

ErrEHFThreshold == "ValueError: Must provide either thresholds or the period"

\* Daily mean temperatures the model draws from, and 95th percentiles a
\* file may hold.
TValues == {10, 20, 40}
P95Values == {15, 30}
\* An argument that is None; one that is given is a tuple.
None == <<>>

\* T: the days 1..n; the first 29 days have one temperature, the others any.
TSeries(n) ==
    {[k \in 1..n |-> Entry(k, Num(IF k < Window30 THEN b ELSE later[k]))] :
        b \in TValues, later \in [Window30..n -> TValues]}

\* The calls of calculate_EHF: T_p95_file given, or T_p95_period and
\* T_p95_dim given, or neither.
EHFCalls ==
    {[fn |-> "calculate_EHF", T |-> T, T_p95_file |-> f, T_p95_period |-> p] :
        T \in UNION {TSeries(Window30 + Window3 - 1 + n) : n \in 1..MaxDays},
        f \in {<<v>> : v \in P95Values} \cup {None},
        p \in {None, <<1, Window30>>}}

\* calculate_percentile_thresholds(T, 0.95, T_p95_period, T_p95_dim,
\* frequency=None), utils.py:1123-1131.
PercentileThreshold(T, period) ==
    Quantile(Values(KeepPeriodTime(T, period)), 19, 20)

\* utils.py:588-603: T_p95 is read from the file or calculated.
EHFThreshold ==
    /\ utilsPc = "start"
    /\ call.fn = "calculate_EHF"
    /\ IF call.T_p95_file # None
         THEN /\ local' = [T_p95 |-> Num(call.T_p95_file[1])]
              /\ utilsPc' = "rolling"
              /\ ret' = ret
         ELSE IF call.T_p95_period # None
           THEN /\ local' = [T_p95 |-> PercentileThreshold(call.T, call.T_p95_period)]
                /\ utilsPc' = "rolling"
                /\ ret' = ret
           ELSE /\ utilsPc' = "done"
                /\ ret' = Raised(ErrEHFThreshold)
                /\ local' = local
    /\ UNCHANGED call
    /\ UNCHANGED outsideUtils

\* utils.py:605-607.
T_3d(T) == Shift(RollingMeanOf(Values(T), Window3), -(Window3 - 1))
\* utils.py:608-610.
T_30d(T) == Shift(RollingMeanOf(Values(T), Window30), 1)

\* utils.py:612.
EHI_sig(T, T_p95) == [k \in DOMAIN T |-> RSub(T_3d(T)[k], T_p95)]
\* utils.py:613.
EHI_accl(T) == [k \in DOMAIN T |-> RSub(T_3d(T)[k], T_30d(T)[k])]
\* utils.py:614: EHI_sig * EHI_accl.where(EHI_accl > 1, 1).
EHF(T, T_p95) ==
    [k \in DOMAIN T |->
        RMul(EHI_sig(T, T_p95)[k],
             IF RGreater(EHI_accl(T)[k], Num(1)) THEN EHI_accl(T)[k] ELSE Num(1))]

\* utils.py:605-621.
EHFReturn ==
    /\ utilsPc = "rolling"
    /\ call.fn = "calculate_EHF"
    /\ ret' = Returned(EHF(call.T, local.T_p95))
    /\ utilsPc' = "done"
    /\ UNCHANGED <<call, local>>
    /\ UNCHANGED outsideUtils

EHFInit ==
    /\ call \in EHFCalls
    /\ utilsPc = "start"
    /\ local = NoLocal
    /\ ret = NoRet

\* ------------------------------------------------------------ hindcast data

\* Data with the dimensions init and lead: the init dates, the leads, the
\* values data[ii][ll], and the 2-D coordinate time = init + lead.
Hindcast(init, lead, data) == [init |-> init, lead |-> lead, data |-> data]
TimeOf(h, ii, ll) == h.init[ii] + h.lead[ll]
Indices(n) == [k \in 1..n |-> k]

\* keep_period on init/lead data, utils.py:1016-1018:
\* mask = (ds.time >= period[0]) & (ds.time <= period[1]);
\* ds.where(mask, drop=True) puts NaN where the mask is false and drops the
\* inits and the leads at which the mask is false everywhere.
PeriodMask(h, period) ==
    [ii \in DOMAIN h.init |->
        [ll \in DOMAIN h.lead |->
            period[1] <= TimeOf(h, ii, ll) /\ TimeOf(h, ii, ll) <= period[2]]]
KeepPeriodHindcast(h, period) ==
    LET mask == PeriodMask(h, period)
        is == SelectSeq(Indices(Len(h.init)),
                        LAMBDA ii : \E ll \in DOMAIN h.lead : mask[ii][ll])
        ls == SelectSeq(Indices(Len(h.lead)),
                        LAMBDA ll : \E ii \in DOMAIN h.init : mask[ii][ll])
    IN Hindcast([a \in DOMAIN is |-> h.init[is[a]]],
                [b \in DOMAIN ls |-> h.lead[ls[b]]],
                [a \in DOMAIN is |->
                    [b \in DOMAIN ls |->
                        IF mask[is[a]][ls[b]]
                          THEN h.data[is[a]][ls[b]] ELSE NaN]])

\* All values of init/lead data, as one sequence.
RECURSIVE Flatten(_)
Flatten(rows) == IF rows = <<>> THEN <<>> ELSE Head(rows) \o Flatten(Tail(rows))

\* .min(dim) and .max(dim): NaN is skipped; NaN if there is nothing else.
NotNaN(s) == SelectSeq(s, LAMBDA v : ~IsNaN(v))
RECURSIVE MinOf(_)
MinOf(s) ==
    IF Len(s) = 1 THEN s[1]
    ELSE LET m == MinOf(Tail(s)) IN IF RLess(Head(s), m) THEN Head(s) ELSE m
RECURSIVE MaxOf(_)
MaxOf(s) ==
    IF Len(s) = 1 THEN s[1]
    ELSE LET m == MaxOf(Tail(s)) IN IF RLess(m, Head(s)) THEN Head(s) ELSE m
NanMin(s) == IF NotNaN(s) = <<>> THEN NaN ELSE MinOf(NotNaN(s))
NanMax(s) == IF NotNaN(s) = <<>> THEN NaN ELSE MaxOf(NotNaN(s))

\* ------------------------------------------------------------ calculate_ffdi

\* The window of the rainfall accumulation, utils.py:524.
Window20 == 20

ErrFFDILayout == "ValueError: I do not know how to compute the FFDI for this data"
ErrNoMember == "ValueError: the data do not have the dimension member"

\* .rolling({dim: window}).sum(): NaN where the window is not full.
RollingSumOf(s, window) ==
    [k \in DOMAIN s |->
        IF k < window THEN NaN ELSE RSum(SubSeq(s, k - window + 1, k))]

\* Daily precipitation: the first 19 steps have one value, the others any.
PrecipValues == {0, 5}
PrecipSeqs(n) ==
    {[k \in 1..n |-> Num(IF k < Window20 THEN b ELSE later[k])] :
        b \in PrecipValues, later \in [Window20..n -> PrecipValues]}
PrecipLengths == {Window20 - 1 + n : n \in 1..MaxAccum}

\* ds with the dimension time (days 1..n), with init and lead (one or two
\* inits, leads 1..n; with or without the dimension member), or with neither.
FFDIData ==
    UNION {{[layout |-> "time", precip |-> [k \in 1..n |-> Entry(k, p[k])]] :
               p \in PrecipSeqs(n)} : n \in PrecipLengths}
    \cup UNION {{[layout |-> "lead", member |-> m,
                  precip |-> Hindcast(init, Indices(n), data)] :
                   m \in BOOLEAN,
                   init \in {<<0>>, <<0, 1>>},
                   data \in {<<p>> : p \in PrecipSeqs(n)}
                            \cup {<<p, p>> : p \in PrecipSeqs(n)}} :
                n \in PrecipLengths}
    \cup {[layout |-> "other"]}

\* The accumulations of clim_period are not all the same, so that the
\* scaling has a range to scale by.
HasRange(ds, period) ==
    LET inPeriod ==
          IF ds.layout = "time"
            THEN {RSum(SubSeq(Values(ds.precip), k - Window20 + 1, k)) :
                     k \in {k \in Window20..Len(ds.precip) :
                              period[1] <= ds.precip[k].t
                                /\ ds.precip[k].t <= period[2]}}
            ELSE {RSum(SubSeq(ds.precip.data[c[1]], c[2] - Window20 + 1, c[2])) :
                     c \in {c \in (DOMAIN ds.precip.init)
                                     \X (Window20..Len(ds.precip.lead)) :
                              PeriodMask(ds.precip, period)[c[1]][c[2]]}}
    IN Cardinality(inPeriod) > 1

\* The calls of calculate_ffdi: clim_period is all of the data, or all but
\* its last step.
FFDICalls ==
    {c \in {[fn |-> "calculate_ffdi", ds |-> ds, clim_period |-> period,
             wind_from_components |-> w] :
               ds \in {d \in FFDIData :
                         d.layout = "lead"
                            => Len(d.precip.init) = Len(d.precip.data)},
               period \in {<<1, Window20 + 1>>, <<1, Window20 + MaxAccum>>},
               w \in BOOLEAN} :
        c.ds.layout # "other" => HasRange(c.ds, c.clim_period)}

\* utils.py:516-524: the rolling dimension, and p20.
FFDIAccumulate ==
    /\ utilsPc = "start"
    /\ call.fn = "calculate_ffdi"
    /\ IF call.ds.layout = "time"
         THEN /\ local' = [p20 |-> [k \in DOMAIN call.ds.precip |->
                              Entry(call.ds.precip[k].t,
                                    RollingSumOf(Values(call.ds.precip), Window20)[k])]]
              /\ utilsPc' = "drought"
              /\ ret' = ret
         ELSE IF call.ds.layout = "lead"
           THEN /\ local' = [p20 |-> [call.ds.precip EXCEPT !.data =
                                [ii \in DOMAIN @ |-> RollingSumOf(@[ii], Window20)]]]
                /\ utilsPc' = "drought"
                /\ ret' = ret
           ELSE /\ utilsPc' = "done"
                /\ ret' = Raised(ErrFFDILayout)
                /\ local' = local
    /\ UNCHANGED call
    /\ UNCHANGED outsideUtils

\* utils.py:509-514: -10 * (p20 - min) / (max - min) + 10.
DroughtFactor(p20, min, max) ==
    RAdd(RDiv(RMul(Num(-10), RSub(p20, min)), RSub(max, min)), Num(10))

\* utils.py:503-514 (_estimate_drought_factor) for a timeseries.
EstimateDroughtFactorTime(p20, clim_period) ==
    LET p20_period == Values(KeepPeriodTime(p20, clim_period))
    IN [k \in DOMAIN p20 |->
          DroughtFactor(p20[k].v, NanMin(p20_period), NanMax(p20_period))]

\* utils.py:503-514 (_estimate_drought_factor) for init/lead data.
EstimateDroughtFactorLead(p20, clim_period) ==
    LET p20_period == Flatten(KeepPeriodHindcast(p20, clim_period).data)
    IN [ii \in DOMAIN p20.init |->
          [ll \in DOMAIN p20.lead |->
              DroughtFactor(p20.data[ii][ll], NanMin(p20_period), NanMax(p20_period))]]

\* utils.py:525-540: D, and the FFDI as the formula of line 537 of D, T, H
\* and W (W from the components of the wind or as given).
FFDIReturn ==
    /\ utilsPc = "drought"
    /\ call.fn = "calculate_ffdi"
    /\ LET W == IF call.wind_from_components THEN "V_tot" ELSE "V_ref_max"
           FFDI(D) == [D |-> D, T |-> "t_ref_max", H |-> "rh", W |-> W]
       IN IF call.ds.layout = "time"
            THEN ret' = Returned(FFDI(EstimateDroughtFactorTime(local.p20, call.clim_period)))
            ELSE IF call.ds.member
              THEN ret' = Returned(FFDI(EstimateDroughtFactorLead(local.p20, call.clim_period)))
              ELSE ret' = Raised(ErrNoMember)
    /\ utilsPc' = "done"
    /\ UNCHANGED <<call, local>>
    /\ UNCHANGED outsideUtils

FFDIInit ==
    /\ call \in FFDICalls
    /\ utilsPc = "start"
    /\ local = NoLocal
    /\ ret = NoRet

\* ------------------------------------------------- utils.py: data with times

\* Times count months: time t is month (t % 12) + 1 of year t \div 12.
MonthsPerYear == 12
Given(v) == <<v>>
Frequencies == {None, Given("month"), Given("year")}
\* getattr(time.dt, frequency).
GroupOf(t, frequency) ==
    IF frequency = Given("month") THEN (t % MonthsPerYear) + 1
    ELSE t \div MonthsPerYear
MonthOf(t) == (t % MonthsPerYear) + 1

\* The data the functions are given:
\*   layout "time": the dimension time (a timeseries of entries);
\*   layout "init": the dimensions init and lead, the 2-D coordinate time and,
\*     if member is true, the dimension member; planes[m] is data[init][lead]
\*     of member m (one plane if there is no dimension member);
\*   layout "other": neither, with or without a coordinate named time.
TimeData(series) == [layout |-> "time", series |-> series]
InitData(member, init, lead, planes) ==
    [layout |-> "init", member |-> member, init |-> init, lead |-> lead,
     planes |-> planes]
OtherData(hasTime) == [layout |-> "other", time |-> hasTime]
Plane(ds, m) == Hindcast(ds.init, ds.lead, ds.planes[m])

\* Ascending sequences of 1..hi elements of a set of numbers.
Ascending(S, hi) ==
    {s \in UNION {[1..n -> S] : n \in 1..hi} :
        \A k \in 1..(Len(s) - 1) : s[k] < s[k + 1]}

\* January and February of two years; January, December and the next
\* January as init dates.
TimePoints == {0, 1, 12, 13}
InitPoints == {0, 11, 12}
DataValues == {2, 4}
Periods == {<<0, 13>>, <<0, 1>>, <<12, 13>>}

TimeSeriesChoices ==
    UNION {{[k \in DOMAIN ts |-> Entry(ts[k], Num(vs[k]))] :
               vs \in [DOMAIN ts -> DataValues]} :
           ts \in Ascending(TimePoints, MaxTimes)}

\* The planes of init/lead data: each init has one of the values at its
\* first lead and one more at every further lead.
PlaneChoices(init, n) ==
    {[a \in DOMAIN init |-> [b \in 1..n |-> Num(vs[a] + b - 1)]] :
        vs \in [DOMAIN init -> DataValues]}

\* Init/lead data without the dimension member, and with it (two members,
\* the second one point above the first).
InitChoices ==
    UNION {UNION {{InitData(FALSE, init, [b \in 1..n |-> b - 1], <<plane>>) :
                      plane \in PlaneChoices(init, n)}
                  \cup
                  {InitData(TRUE, init, [b \in 1..n |-> b - 1],
                            <<plane, [a \in DOMAIN plane |->
                                        [b \in DOMAIN plane[a] |->
                                            RAdd(plane[a][b], Num(1))]]>>) :
                      plane \in PlaneChoices(init, n)} :
                  n \in 1..MaxLeads} :
           init \in Ascending(InitPoints, MaxInits)}

\* ---------------------------------------------------------------- keep_period

ErrNoTime == "KeyError: time"
ErrKeepPeriod == "ValueError: I do not know how to mask the time period for this data"

Ok(v) == [ok |-> TRUE, value |-> v]
Fail(e) == [ok |-> FALSE, error |-> e]

\* keep_period(ds, period), utils.py:992-1022.  Line 1005 reads ds["time"]
\* before the layout is looked at.
KeepPeriod(ds, period) ==
    IF ds.layout = "other" /\ ~ds.time THEN Fail(ErrNoTime)
    ELSE IF ds.layout = "init"
      THEN Ok(LET kept == [m \in DOMAIN ds.planes |->
                              KeepPeriodHindcast(Plane(ds, m), period)]
              IN InitData(ds.member, kept[1].init, kept[1].lead,
                          [m \in DOMAIN kept |-> kept[m].data]))
    ELSE IF ds.layout = "time"
      THEN Ok(TimeData(KeepPeriodTime(ds.series, period)))
    ELSE Fail(ErrKeepPeriod)

\* ----------------------------------------------- _get_groupby_and_reduce_dims

ErrGroupby == "ValueError: I cannot work out how to apply groupby on this data"
ErrSameGroup == "AssertionError: All group values are not the same for each lead"

\* utils.py:1031-1033 and 1043-1051: within every group of inits of one
\* month, the group value of the time at each lead is that of the group's
\* first init.
SameGroupPerLead(ds, frequency) ==
    \A a, b \in DOMAIN ds.init :
        (MonthOf(ds.init[a]) = MonthOf(ds.init[b])) =>
            \A c \in DOMAIN ds.lead :
                GroupOf(ds.init[a] + ds.lead[c], frequency)
                    = GroupOf(ds.init[b] + ds.lead[c], frequency)

\* utils.py:1025-1060.  groupby is None, "time.<frequency>" or "init.month".
GetGroupbyAndReduceDims(ds, frequency) ==
    IF ds.layout = "time"
      THEN Ok([groupby |-> IF frequency = None THEN None
                           ELSE Given(<<"time", frequency[1]>>),
               reduce_dim |-> <<"time">>])
    ELSE IF ds.layout = "init"
      THEN IF frequency # None /\ ~SameGroupPerLead(ds, frequency)
             THEN Fail(ErrSameGroup)
             ELSE Ok([groupby |-> Given(<<"init", "month">>),
                      reduce_dim |-> IF ds.member THEN <<"init", "member">>
                                     ELSE <<"init">>])
    ELSE Fail(ErrGroupby)

\* -------------------------------------------------------------- climatologies

ErrEmptyGroup == "ValueError: the variable to group by must not be empty"

\* The numbers of a set in ascending order.
RECURSIVE SortedSeqOf(_)
SortedSeqOf(S) ==
    IF S = {} THEN <<>>
    ELSE LET lo == CHOOSE a \in S : \A b \in S : a <= b
         IN <<lo>> \o SortedSeqOf(S \ {lo})

\* A climatology: one value (no groupby), or a value for each group that
\* occurs, in ascending order of the groups.
Scalar(v) == [grouped |-> FALSE, value |-> v]
Grouped(groups, value) == [grouped |-> TRUE, groups |-> groups, value |-> value]
\* The value for one group; a group that is not there has none.
ClimAt(clim, g) ==
    IF ~clim.grouped THEN clim.value
    ELSE IF \E k \in DOMAIN clim.groups : clim.groups[k] = g
      THEN clim.value[CHOOSE k \in DOMAIN clim.groups : clim.groups[k] = g]
      ELSE NaN

\* .mean(dim) skips NaN and is NaN where there is nothing else.
NanMean(vs) == Mean(NotNaN(vs))

\* series.mean("time"), or series.groupby("time.<frequency>").mean("time").
ClimTime(series, frequency) ==
    IF frequency = None THEN Scalar(NanMean(Values(series)))
    ELSE LET groups == SortedSeqOf({GroupOf(series[k].t, frequency) :
                                       k \in DOMAIN series})
         IN Grouped(groups,
                [g \in DOMAIN groups |->
                    NanMean(Values(SelectSeq(series,
                        LAMBDA e : GroupOf(e.t, frequency) = groups[g])))])

\* The months of the inits, in ascending order, and the inits of one month.
InitMonths(ds) == SortedSeqOf({MonthOf(ds.init[a]) : a \in DOMAIN ds.init})
InitsOfMonth(ds, month) ==
    SelectSeq(Indices(Len(ds.init)), LAMBDA a : MonthOf(ds.init[a]) = month)

\* hcst.mean(reduce_dim) at one lead, for the inits of one month: the mean
\* over these inits (and the members).
HcstMean(ds, month, c) ==
    LET rows == InitsOfMonth(ds, month)
    IN NanMean(Flatten([m \in DOMAIN ds.planes |->
                           [a \in DOMAIN rows |-> ds.planes[m][rows[a]][c]]]))

\* ---------------------------------------------------------------- correct_bias

ErrMethod == "ValueError: Unrecognised input for method"
ErrNoneGroupby == "TypeError: argument of type NoneType is not iterable"
ErrIndex == "IndexError: index out of bounds"
ErrAligned == "AssertionError"

\* np.searchsorted(a, v): the number of elements of a that are below v.
SearchSorted(groups, v) == Cardinality({k \in DOMAIN groups : groups[k] < v})

\* utils.py:1251-1252: the group of the times of the first init, per lead.
HcstGroups(ds, month, frequency) ==
    LET first == InitsOfMonth(ds, month)[1]
    IN [c \in DOMAIN ds.lead |-> GroupOf(ds.init[first] + ds.lead[c], frequency)]

\* Mutant of GetHcstBias: the assertion of line 1259 left out, so that a
\* group that the observed climatology lacks takes the next group there is.
GetHcstBiasUnasserted(ds, month, obsv_clim, frequency, method) ==
    LET Bias(mean, clim) ==
            IF method = "additive" THEN RSub(mean, clim) ELSE RDiv(mean, clim)
    IN IF frequency = None
         THEN Ok([c \in DOMAIN ds.lead |->
                     Bias(HcstMean(ds, month, c), obsv_clim.value)])
         ELSE LET hcst_groups == HcstGroups(ds, month, frequency)
                  indices == [c \in DOMAIN ds.lead |->
                                 SearchSorted(obsv_clim.groups, hcst_groups[c])]
              IN IF \E c \in DOMAIN ds.lead : indices[c] >= Len(obsv_clim.groups)
                   THEN Fail(ErrIndex)
                   ELSE Ok([c \in DOMAIN ds.lead |->
                               Bias(HcstMean(ds, month, c),
                                    obsv_clim.value[indices[c] + 1])])

\* utils.py:1244-1267 (_get_hcst_bias) for the inits of one month: the bias
\* per lead, or the error raised.
GetHcstBias(ds, month, obsv_clim, frequency, method) ==
    LET Bias(mean, clim) ==
            IF method = "additive" THEN RSub(mean, clim) ELSE RDiv(mean, clim)
    IN IF frequency = None
         THEN Ok([c \in DOMAIN ds.lead |->
                     Bias(HcstMean(ds, month, c), obsv_clim.value)])
         ELSE LET hcst_groups == HcstGroups(ds, month, frequency)
                  indices == [c \in DOMAIN ds.lead |->
                                 SearchSorted(obsv_clim.groups, hcst_groups[c])]
              IN IF \E c \in DOMAIN ds.lead : indices[c] >= Len(obsv_clim.groups)
                   THEN Fail(ErrIndex)
                   ELSE IF \E c \in DOMAIN ds.lead :
                             obsv_clim.groups[indices[c] + 1] # hcst_groups[c]
                     THEN Fail(ErrAligned)
                     ELSE Ok([c \in DOMAIN ds.lead |->
                                 Bias(HcstMean(ds, month, c),
                                      obsv_clim.value[indices[c] + 1])])

\* The calls of correct_bias.  The observations of obsv_file are a
\* timeseries: every time of ObsvPoints, or all but the December, or the
\* Januaries and the December only.
ObsvPoints == {0, 1, 11, 12, 13}
ObsvValue(t) == Num(8 * MonthOf(t) + (t \div MonthsPerYear))
ObsvChoices ==
    {[k \in DOMAIN ts |-> Entry(ts[k], ObsvValue(ts[k]))] :
        ts \in {SortedSeqOf(ObsvPoints), SortedSeqOf(ObsvPoints \ {11}),
                SortedSeqOf(ObsvPoints \ {1, 13})}}
Methods2 == {"additive", "multiplicative", "relative"}
DataChoices ==
    {TimeData(ts) : ts \in TimeSeriesChoices}
        \cup InitChoices \cup {OtherData(t) : t \in BOOLEAN}
CorrectBiasCalls ==
    [fn : {"correct_bias"}, ds : DataChoices, obsv : ObsvChoices,
     period : Periods, frequency : Frequencies, method : Methods2]

\* utils.py:1269-1284: the method is checked, the observations are opened,
\* both are cut to the period, and the observed climatology is calculated.
CorrectBiasClimatology ==
    /\ utilsPc = "start"
    /\ call.fn = "correct_bias"
    /\ LET obsv == TimeData(call.obsv)
           obsv_period == KeepPeriod(obsv, call.period)
           ds_period == KeepPeriod(call.ds, call.period)
           obsv_dims == GetGroupbyAndReduceDims(obsv, call.frequency)
           ds_dims == GetGroupbyAndReduceDims(call.ds, call.frequency)
           Stop(e) == /\ ret' = Raised(e)
                      /\ utilsPc' = "done"
                      /\ local' = local
       IN IF call.method \notin {"additive", "multiplicative"}
            THEN Stop(ErrMethod)
          ELSE IF ~ds_period.ok THEN Stop(ds_period.error)
          ELSE IF ~ds_dims.ok THEN Stop(ds_dims.error)
          ELSE IF call.frequency # None /\ obsv_period.value.series = <<>>
            THEN Stop(ErrEmptyGroup)
          ELSE /\ local' = [ds_period |-> ds_period.value,
                            ds_groupby |-> ds_dims.value.groupby,
                            obsv_clim |-> ClimTime(obsv_period.value.series,
                                                   call.frequency)]
               /\ utilsPc' = "bias"
               /\ ret' = ret
    /\ UNCHANGED call
    /\ UNCHANGED outsideUtils

\* utils.py:1288-1294: the bias of the inits of each month, per lead, or the
\* error of the first month whose bias raises.
HindcastBias ==
    LET months == InitMonths(local.ds_period)
        each == [k \in DOMAIN months |->
                    GetHcstBias(local.ds_period, months[k], local.obsv_clim,
                                call.frequency, call.method)]
        failed == {k \in DOMAIN months : ~each[k].ok}
    IN IF months = <<>> THEN Fail(ErrEmptyGroup)
       ELSE IF failed # {}
         THEN each[CHOOSE k \in failed : \A o \in failed : k <= o]
         ELSE Ok([months |-> months, lead |-> local.ds_period.lead,
                  value |-> [k \in DOMAIN months |-> each[k].value]])

\* The arithmetic of ds with an array that has some of its leads only keeps
\* the leads that both have (the inner join of the two lead coordinates):
\* the positions of these leads in ds.
CommonLeads(ds, lead) ==
    SelectSeq(Indices(Len(ds.lead)),
              LAMBDA c : \E b \in DOMAIN lead : lead[b] = ds.lead[c])

\* The bias that applies at one init and lead of ds; none if the period
\* kept no init of that month.
HindcastBiasAt(bias, init, lead) ==
    IF \E k \in DOMAIN bias.months : bias.months[k] = MonthOf(init)
      THEN bias.value[CHOOSE k \in DOMAIN bias.months :
                          bias.months[k] = MonthOf(init)]
                     [CHOOSE c \in DOMAIN bias.lead : bias.lead[c] = lead]
      ELSE NaN

\* utils.py:1302-1305: the bias is subtracted from ds or ds is divided by it.
Corrected(v, bias) ==
    IF call.method = "additive" THEN RSub(v, bias) ELSE RDiv(v, bias)

\* utils.py:1286-1305.
CorrectBiasReturn ==
    /\ utilsPc = "bias"
    /\ call.fn = "correct_bias"
    /\ IF local.ds_groupby = None
         THEN ret' = Raised(ErrNoneGroupby)
       ELSE IF call.ds.layout = "init"
         THEN LET bias == HindcastBias
              IN IF ~bias.ok THEN ret' = Raised(bias.error)
                 ELSE LET cs == CommonLeads(call.ds, bias.value.lead)
                      IN ret' = Returned(InitData(call.ds.member, call.ds.init,
                        [c \in DOMAIN cs |-> call.ds.lead[cs[c]]],
                        [m \in DOMAIN call.ds.planes |->
                          [a \in DOMAIN call.ds.init |->
                            [c \in DOMAIN cs |->
                              Corrected(call.ds.planes[m][a][cs[c]],
                                  HindcastBiasAt(bias.value, call.ds.init[a],
                                                 call.ds.lead[cs[c]]))]]]))
       ELSE IF local.ds_period.series = <<>>
         THEN ret' = Raised(ErrEmptyGroup)
       ELSE LET ds_clim == ClimTime(local.ds_period.series, call.frequency)
                bias(g) == RSub(ClimAt(ds_clim, g), ClimAt(local.obsv_clim, g))
            IN ret' = Returned([call.ds EXCEPT !.series =
                        [k \in DOMAIN @ |->
                            Entry(@[k].t,
                                  Corrected(@[k].v,
                                      bias(GroupOf(@[k].t, call.frequency))))]])
    /\ utilsPc' = "done"
    /\ UNCHANGED <<call, local>>
    /\ UNCHANGED outsideUtils

CorrectBiasInit ==
    /\ call \in CorrectBiasCalls
    /\ utilsPc = "start"
    /\ local = NoLocal
    /\ ret = NoRet

\* ------------------------------------------------------ keep_period, as called

KeepPeriodCalls == [fn : {"keep_period"}, ds : DataChoices, period : Periods]

\* utils.py:1005-1014: the time coordinate is read and the period is turned
\* into two dates of the calendar of the data.
KeepPeriodCalendar ==
    /\ utilsPc = "start"
    /\ call.fn = "keep_period"
    /\ IF call.ds.layout = "other" /\ ~call.ds.time
         THEN /\ ret' = Raised(ErrNoTime)
              /\ utilsPc' = "done"
              /\ local' = local
         ELSE /\ local' = [period |-> call.period]
              /\ utilsPc' = "mask"
              /\ ret' = ret
    /\ UNCHANGED call
    /\ UNCHANGED outsideUtils

\* utils.py:1016-1022.
KeepPeriodReturn ==
    /\ utilsPc = "mask"
    /\ call.fn = "keep_period"
    /\ LET kept == KeepPeriod(call.ds, local.period)
       IN ret' = IF kept.ok THEN Returned(kept.value) ELSE Raised(kept.error)
    /\ utilsPc' = "done"
    /\ UNCHANGED <<call, local>>
    /\ UNCHANGED outsideUtils

KeepPeriodInit ==
    /\ call \in KeepPeriodCalls
    /\ utilsPc = "start"
    /\ local = NoLocal
    /\ ret = NoRet

\* ------------------------------------------ coarsen, rolling_mean and resample

ErrShortSelection == "ValueError: the selection is shorter than the window"
ErrEmptySelection == "ValueError: no values to resample"

\* The resample frequencies "MS" and "AS": groups of one month and of one
\* year, labelled with their first month.
MonthsOf(freq) == IF freq = "AS" THEN MonthsPerYear ELSE 1
ResampleFreqs == {"MS", "AS"}
WindowSizes == {1, 2}
StartPointValues == {-1, 1, 12, 14}
MinSamples == {None, Given(1), Given(2)}

\* The timeseries that are coarsened, smoothed and resampled: some values
\* are missing.
SeriesChoices ==
    UNION {{[k \in DOMAIN ts |-> Entry(ts[k], vs[k])] :
               vs \in [DOMAIN ts -> {Num(v) : v \in DataValues} \cup {NaN}]} :
           ts \in Ascending(TimePoints, MaxTimes)}
\* start_points: None, one point, or two points.
StartPointChoices ==
    {None} \cup {<<p>> : p \in StartPointValues}
        \cup {s \in StartPointValues \X StartPointValues : s[1] < s[2]}
\* The calls; the data are at least as long as the window.
ResamplingCalls ==
    {c \in [fn : {"coarsen", "rolling_mean"}, ds : SeriesChoices,
            window_size : WindowSizes, start_points : StartPointChoices] :
        c.window_size <= Len(c.ds)}
    \cup [fn : {"resample"}, ds : SeriesChoices, freq : ResampleFreqs,
          start_points : StartPointChoices, min_samples : MinSamples]

\* ds.sel({dim: slice(start_point, None)}): the entries from the start point
\* on, all of them if the start point is None.
SelFrom(ts, start_point) ==
    IF start_point = None THEN ts
    ELSE SelectSeq(ts, LAMBDA e : e.t >= start_point[1])

MaxT(ts) == CHOOSE t \in {ts[k].t : k \in DOMAIN ts} :
                \A k \in DOMAIN ts : ts[k].t <= t

\* .coarsen({dim: window_size}, boundary="trim", coord_func=max).mean(),
\* utils.py:1425-1430: the full windows from the first entry on, each with
\* the largest of its times and the mean of its values that are not missing.
CoarsenOf(ts, window_size) ==
    [k \in 1..(Len(ts) \div window_size) |->
        LET window == SubSeq(ts, (k - 1) * window_size + 1, k * window_size)
        IN Entry(MaxT(window), NanMean(Values(window)))]

\* .rolling({dim: window_size}, min_periods=window_size, center=False).mean(),
\* utils.py:1458-1463.
RollingOf(ts, window_size) ==
    LET means == RollingMeanOf(Values(ts), window_size)
    IN [k \in DOMAIN ts |-> Entry(ts[k].t, means[k])]

\* Mutant of mean_min_samples: more than min_samples samples are asked for.
mean_more_samples(group, min_samples) ==
    LET mm == Mean(Values(group))
    IN IF Len(group) > min_samples THEN mm ELSE RMul(NaN, mm)

\* mean_min_samples, utils.py:1496-1499.
mean_min_samples(group, min_samples) ==
    LET mm == Mean(Values(group))
    IN IF Len(group) >= min_samples THEN mm ELSE RMul(NaN, mm)

\* .resample({dim: freq}) and the mean of each group, utils.py:1506-1512:
\* one entry for every group from the group of the first entry to the group
\* of the last one; a group without entries is missing.
ResampleOf(ts, freq, min_samples) ==
    LET width == MonthsOf(freq)
        first == ts[1].t \div width
        last == ts[Len(ts)].t \div width
    IN [k \in 1..(last - first + 1) |->
          LET group == SelectSeq(ts,
                          LAMBDA e : e.t \div width = first + k - 1)
          IN Entry((first + k - 1) * width,
                   IF group = <<>> THEN NaN
                   ELSE IF min_samples = None THEN NanMean(Values(group))
                   ELSE mean_min_samples(group, min_samples[1]))]

\* .sortby(dim): the entries in ascending order of their times, entries of
\* one time in the order they had.
RECURSIVE InsertEntry(_, _)
InsertEntry(e, s) ==
    IF s = <<>> THEN <<e>>
    ELSE IF Head(s).t < e.t THEN <<Head(s)>> \o InsertEntry(e, Tail(s))
    ELSE <<e>> \o s
RECURSIVE SortBy(_)
SortBy(s) == IF s = <<>> THEN <<>> ELSE InsertEntry(Head(s), SortBy(Tail(s)))
\* xr.concat(dss, dim=dim).
RECURSIVE Concat(_)
Concat(dss) == IF dss = <<>> THEN <<>> ELSE Head(dss) \o Concat(Tail(dss))

\* utils.py:1420-1421, 1452-1453 and 1501-1502:
\* if start_points is None: start_points = [None].
StartPointsDefault ==
    /\ utilsPc = "start"
    /\ call.fn \in {"coarsen", "rolling_mean", "resample"}
    /\ local' = [start_points |->
                    IF call.start_points = None THEN <<None>>
                    ELSE [k \in DOMAIN call.start_points |->
                             Given(call.start_points[k])],
                 dss |-> <<>>]
    /\ utilsPc' = "loop"
    /\ UNCHANGED <<call, ret>>
    /\ UNCHANGED outsideUtils

\* The start point of the next pass of the loop.
MoreStartPoints == Len(local.dss) < Len(local.start_points)
start_point == local.start_points[Len(local.dss) + 1]
AppendDss(piece) ==
    /\ local' = [local EXCEPT !.dss = Append(@, piece)]
    /\ UNCHANGED <<utilsPc, ret>>
RaiseInLoop(e) ==
    /\ ret' = Raised(e)
    /\ utilsPc' = "done"
    /\ local' = local

\* One pass of the loop of coarsen, utils.py:1422-1431.
CoarsenAppend ==
    /\ utilsPc = "loop" /\ call.fn = "coarsen" /\ MoreStartPoints
    /\ AppendDss(CoarsenOf(SelFrom(call.ds, start_point), call.window_size))
    /\ UNCHANGED call
    /\ UNCHANGED outsideUtils

\* One pass of the loop of rolling_mean, utils.py:1455-1466.  What rolling
\* does with a selection that is shorter than the window depends on the
\* installed libraries: it raises, or it gives no full window.
RollingMeanAppend ==
    /\ utilsPc = "loop" /\ call.fn = "rolling_mean" /\ MoreStartPoints
    /\ LET sel == SelFrom(call.ds, start_point)
       IN \/ AppendDss(RollingOf(sel, call.window_size))
          \/ /\ Len(sel) < call.window_size
             /\ RaiseInLoop(ErrShortSelection)
    /\ UNCHANGED call
    /\ UNCHANGED outsideUtils

\* One pass of the loop of resample, utils.py:1504-1512.  What resample does
\* with an empty selection depends on the installed libraries: it raises, or
\* it gives no group.
ResampleAppend ==
    /\ utilsPc = "loop" /\ call.fn = "resample" /\ MoreStartPoints
    /\ LET sel == SelFrom(call.ds, start_point)
       IN \/ AppendDss(IF sel = <<>> THEN <<>>
                       ELSE ResampleOf(sel, call.freq, call.min_samples))
          \/ /\ sel = <<>>
             /\ RaiseInLoop(ErrEmptySelection)
    /\ UNCHANGED call
    /\ UNCHANGED outsideUtils

\* utils.py:1432, 1467-1470 and 1513: xr.concat(dss, dim=dim).sortby(dim).
ConcatSortby ==
    /\ utilsPc = "loop"
    /\ call.fn \in {"coarsen", "rolling_mean", "resample"}
    /\ ~MoreStartPoints
    /\ ret' = Returned(SortBy(Concat(local.dss)))
    /\ utilsPc' = "done"
    /\ UNCHANGED <<call, local>>
    /\ UNCHANGED outsideUtils

ResamplingInit ==
    /\ call \in ResamplingCalls
    /\ utilsPc = "start"
    /\ local = NoLocal
    /\ ret = NoRet

\* ------------------------------------------------------ round_to_start_of_month

\* A date: the month (counted from the first month of year 0), the day of
\* the month and the hour of the day.
Date(month, day, hour) == [month |-> month, day |-> day, hour |-> hour]
DateMonths == {0, 1, 12}
DateDays == {1, 2, 16}
DateHours == {0, 12}
Dates == {Date(mo, dd, hh) : mo \in DateMonths, dd \in DateDays, hh \in DateHours}

\* .dt.floor("D"): the start of the day.
FloorD(date) == Date(date.month, date.day, 0)

\* xarray.coding.cftime_offsets._adjust_n_months: how often a monthly offset
\* of n months is applied to a date, given the day of the date.
AdjustNMonths(other_day, n, reference_day) ==
    IF n > 0 /\ other_day < reference_day THEN n - 1
    ELSE IF n <= 0 /\ other_day > reference_day THEN n + 1
    ELSE n
\* date - MonthBegin(): the offset MonthBegin(n=-1) applied to the date, which
\* shifts it by the adjusted number of months to the first day of a month.
MinusMonthBegin(date) ==
    Date(date.month + AdjustNMonths(date.day, -1, 1), 1, date.hour)

\* The argument dim: the name of a dimension, or a list of names.
StrDim(name) == [str |-> TRUE, names |-> <<name>>]
ListDim(names) == [str |-> FALSE, names |-> names]

\* The datasets: the coordinates init and time, each some dates.
DateSeqs == UNION {[1..n -> Dates] : n \in 1..MaxDates}
RoundCalls ==
    [fn : {"round_to_start_of_month"},
     ds : [init : {<<date>> : date \in Dates}, time : DateSeqs],
     dim : {StrDim("init"), StrDim("time"), ListDim(<<"init", "time">>)}]

\* utils.py:1394-1395: if isinstance(dim, str): dim = [dim].
RoundDims ==
    /\ utilsPc = "start"
    /\ call.fn = "round_to_start_of_month"
    /\ local' = [dim |-> call.dim.names,
                 ds |-> call.ds]
    /\ utilsPc' = "loop"
    /\ UNCHANGED <<call, ret>>
    /\ UNCHANGED outsideUtils

\* utils.py:1396-1397, one pass of the loop:
\* ds = ds.copy().assign_coords(
\*          {d: ds[d].compute().dt.floor("D") - MonthBegin()}).
RoundDim ==
    /\ utilsPc = "loop"
    /\ call.fn = "round_to_start_of_month"
    /\ local.dim # <<>>
    /\ LET d == Head(local.dim)
       IN local' = [dim |-> Tail(local.dim),
                    ds |-> [local.ds EXCEPT ![d] =
                              [k \in DOMAIN @ |-> MinusMonthBegin(FloorD(@[k]))]]]
    /\ UNCHANGED <<call, utilsPc, ret>>
    /\ UNCHANGED outsideUtils

\* utils.py:1398.
RoundReturn ==
    /\ utilsPc = "loop"
    /\ call.fn = "round_to_start_of_month"
    /\ local.dim = <<>>
    /\ ret' = Returned(local.ds)
    /\ utilsPc' = "done"
    /\ UNCHANGED <<call, local>>
    /\ UNCHANGED outsideUtils

RoundInit ==
    /\ call \in RoundCalls
    /\ utilsPc = "start"
    /\ local = NoLocal
    /\ ret = NoRet

\* ------------------------------------------------------------------- anomalise

AnomaliseCalls ==
    [fn : {"anomalise"}, ds : DataChoices, clim_period : Periods,
     frequency : Frequencies]

\* utils.py:1084-1086: ds is cut to the climatological period and the
\* groupby of ds is worked out.
AnomalisePeriod ==
    /\ utilsPc = "start"
    /\ call.fn = "anomalise"
    /\ LET ds_period == KeepPeriod(call.ds, call.clim_period)
           dims == GetGroupbyAndReduceDims(call.ds, call.frequency)
           Stop(e) == /\ ret' = Raised(e)
                      /\ utilsPc' = "done"
                      /\ local' = local
       IN IF ~ds_period.ok THEN Stop(ds_period.error)
          ELSE IF ~dims.ok THEN Stop(dims.error)
          ELSE /\ local' = [ds_period |-> ds_period.value,
                            groupby |-> dims.value.groupby]
               /\ utilsPc' = "clim"
               /\ ret' = ret
    /\ UNCHANGED call
    /\ UNCHANGED outsideUtils

\* ds_period.groupby("init.month").mean(reduce_dim), utils.py:1092, of
\* init/lead data: for each month of the inits of ds_period and each of its
\* leads, the mean over the inits of the month (and the members).
HindcastClim(ds_period) ==
    LET months == InitMonths(ds_period)
    IN [months |-> months, lead |-> ds_period.lead,
        value |-> [k \in DOMAIN months |->
                      [c \in DOMAIN ds_period.lead |->
                          HcstMean(ds_period, months[k], c)]]]

\* utils.py:1088-1093: the climatology of ds_period is taken from ds.
AnomaliseReturn ==
    /\ utilsPc = "clim"
    /\ call.fn = "anomalise"
    /\ IF local.groupby = None
         THEN LET clim == NanMean(Values(local.ds_period.series))
              IN ret' = Returned([call.ds EXCEPT !.series =
                          [k \in DOMAIN @ |-> Entry(@[k].t, RSub(@[k].v, clim))]])
       ELSE IF call.ds.layout = "init"
         THEN IF local.ds_period.init = <<>>
                THEN ret' = Raised(ErrEmptyGroup)
                ELSE LET clim == HindcastClim(local.ds_period)
                         cs == CommonLeads(call.ds, clim.lead)
                     IN ret' = Returned(InitData(call.ds.member, call.ds.init,
                          [c \in DOMAIN cs |-> call.ds.lead[cs[c]]],
                          [m \in DOMAIN call.ds.planes |->
                            [a \in DOMAIN call.ds.init |->
                              [c \in DOMAIN cs |->
                                RSub(call.ds.planes[m][a][cs[c]],
                                     HindcastBiasAt(clim, call.ds.init[a],
                                                    call.ds.lead[cs[c]]))]]]))
       ELSE IF local.ds_period.series = <<>>
         THEN ret' = Raised(ErrEmptyGroup)
       ELSE LET clim == ClimTime(local.ds_period.series, call.frequency)
            IN ret' = Returned([call.ds EXCEPT !.series =
                        [k \in DOMAIN @ |->
                            Entry(@[k].t,
                                  RSub(@[k].v,
                                       ClimAt(clim, GroupOf(@[k].t,
                                                            call.frequency))))]])
    /\ utilsPc' = "done"
    /\ UNCHANGED <<call, local>>
    /\ UNCHANGED outsideUtils

AnomaliseInit ==
    /\ call \in AnomaliseCalls
    /\ utilsPc = "start"
    /\ local = NoLocal
    /\ ret = NoRet

\* -------------------------------------------------------------- specification

PrepareInit ==
    /\ cfgName \in NameChoices \cup {NoEntry}
    /\ cfgHasPrepare \in BOOLEAN
    /\ ids \in (IF cfgHasPrepare THEN InjSeqs(IdSet, 0, MaxIds) ELSE {<<>>})
    /\ disk0 \in [IdSet -> {"absent", "old"}]
    /\ entry \in {"direct", "main"}
    /\ save \in (IF entry = "main" THEN {TRUE} ELSE BOOLEAN)
    /\ pc = (IF entry = "main" THEN "idle" ELSE "start")
    /\ err = ErrNone
    /\ i = 0
    /\ params = NoParams
    /\ j = 0
    /\ log = <<>>
    /\ parts = <<>>
    /\ prepared = <<>>
    /\ disk = disk0
    /\ writes = [id \in IdSet |-> 0]
    /\ mainPc = (IF entry = "main" THEN "init" ELSE "none")
    /\ client = "none"
    /\ gridFiles \in (IF entry = "main" THEN SUBSET {"atmos", "ocean"} ELSE {{}})
    /\ cli \in (IF entry = "main"
                 THEN [config : ConfigFiles, config_dir : {ConfigDir},
                       save_dir : {SaveDir}]
                 ELSE {NoCli})
    /\ callArgs = NoArgs

Init == PrepareInit /\ CmipIdle /\ AreaIdle /\ CompositeIdle /\ UtilsIdle

Next ==
    \/ CheckConfig
    \/ NextIdentifier
    \/ OpenRealm
    \/ Merge
    \/ Apply
    \/ Save
    \/ Return
    \/ StartClient
    \/ GenerateGridFiles
    \/ CallPrepare
    \/ ExitMain

Spec == Init /\ [][Next]_vars

PrepareIdle ==
    /\ cfgName = NoEntry /\ cfgHasPrepare = FALSE /\ ids = <<>>
    /\ save = FALSE /\ disk0 = [id \in IdSet |-> "absent"]
    /\ pc = "idle" /\ err = ErrNone /\ i = 0 /\ params = NoParams /\ j = 0
    /\ log = <<>> /\ parts = <<>> /\ prepared = <<>>
    /\ disk = disk0 /\ writes = [id \in IdSet |-> 0]
    /\ entry = "none" /\ mainPc = "none" /\ client = "none"
    /\ gridFiles = {} /\ cli = NoCli /\ callArgs = NoArgs

\* The CMIP6 openers.
InitCmip == CmipInit /\ PrepareIdle /\ AreaIdle /\ CompositeIdle /\ UtilsIdle
NextCmip ==
    \/ CmipVariable
    \/ CmipCompute
SpecCmip == InitCmip /\ [][NextCmip]_vars

\* The cell-area check of the EC-Earth3 openers.
InitArea == AreaInit /\ PrepareIdle /\ CmipIdle /\ CompositeIdle /\ UtilsIdle
NextArea ==
    \/ AreaCheckCoord
    \/ AreaAssign
SpecArea == InitArea /\ [][NextArea]_vars

\* composite_function.
InitComposite == CompositeInit /\ PrepareIdle /\ CmipIdle /\ AreaIdle /\ UtilsIdle
NextComposite ==
    \/ CompositeFunction
    \/ CallComposite
SpecComposite == InitComposite /\ [][NextComposite]_vars

\* The transformations of utils.py, one specification for each.
OthersIdle == PrepareIdle /\ CmipIdle /\ AreaIdle /\ CompositeIdle

\* calculate_EHF.
InitEHF == EHFInit /\ OthersIdle
NextEHF ==
    \/ EHFThreshold
    \/ EHFReturn
SpecEHF == InitEHF /\ [][NextEHF]_vars

\* calculate_ffdi.
InitFFDI == FFDIInit /\ OthersIdle
NextFFDI ==
    \/ FFDIAccumulate
    \/ FFDIReturn
SpecFFDI == InitFFDI /\ [][NextFFDI]_vars

\* correct_bias.
InitCorrectBias == CorrectBiasInit /\ OthersIdle
NextCorrectBias ==
    \/ CorrectBiasClimatology
    \/ CorrectBiasReturn
SpecCorrectBias == InitCorrectBias /\ [][NextCorrectBias]_vars

\* keep_period.
InitKeepPeriod == KeepPeriodInit /\ OthersIdle
NextKeepPeriod ==
    \/ KeepPeriodCalendar
    \/ KeepPeriodReturn
SpecKeepPeriod == InitKeepPeriod /\ [][NextKeepPeriod]_vars

\* coarsen, rolling_mean and resample.
InitResampling == ResamplingInit /\ OthersIdle
NextResampling ==
    \/ StartPointsDefault
    \/ CoarsenAppend
    \/ RollingMeanAppend
    \/ ResampleAppend
    \/ ConcatSortby
SpecResampling == InitResampling /\ [][NextResampling]_vars

\* round_to_start_of_month.
InitRound == RoundInit /\ OthersIdle
NextRound ==
    \/ RoundDims
    \/ RoundDim
    \/ RoundReturn
SpecRound == InitRound /\ [][NextRound]_vars

\* anomalise.
InitAnomalise == AnomaliseInit /\ OthersIdle
NextAnomalise ==
    \/ AnomalisePeriod
    \/ AnomaliseReturn
SpecAnomalise == InitAnomalise /\ [][NextAnomalise]_vars

\* ============================================================ the claims

IdsOf == {ids[k] : k \in DOMAIN ids}
Untouched(id) == disk[id] = disk0[id] /\ writes[id] = 0
WrittenOnce(id) == disk[id] = "new" /\ writes[id] = 1
Has(e) == \E p \in DOMAIN log : log[p].ev = e
NameGiven == cfgName # NoEntry

\* C1: when prepare_dataset returns with save=True, every identifier of the
\* 'prepare' section has had its store written exactly once (replacing an
\* earlier one) and no other store has been touched; with save=False no store
\* is written.
C1_StorePerIdentifier ==
    pc = "returned" =>
        /\ prepared = ids
        /\ \A id \in IdSet :
             IF save /\ id \in IdsOf THEN WrittenOnce(id) ELSE Untouched(id)

\* A run with save=True returned after two identifiers, one replacing an
\* earlier store, while an earlier store of another name is on disk.
C1_Witness ==
    /\ pc = "returned" /\ save /\ Len(ids) = 2
    /\ disk0[ids[2]] = "old" /\ disk[ids[2]] = "new"
    /\ \E id \in IdSet \ IdsOf : disk0[id] = "old"

C3_NoNameRaisesFirst ==
    ~NameGiven =>
        /\ pc \in {"idle", "start", "raised"}
        /\ pc = "raised" => err = ErrNoName /\ IsValueError(err)
        /\ i = 0 /\ log = <<>> /\ parts = <<>> /\ prepared = <<>>
        /\ \A id \in IdSet : Untouched(id)

\* The ValueError for the missing name, in a config that has a 'prepare'
\* section with identifiers.
C3_Witness ==
    ~NameGiven /\ cfgHasPrepare /\ Len(ids) > 0 /\ pc = "raised"

\* C4: with a 'name' but no 'prepare' section prepare_dataset raises the
\* ValueError 'No variables were specified to prepare' and opens and writes
\* nothing.
C4_NoPrepareRaises ==
    (NameGiven /\ ~cfgHasPrepare) =>
        /\ pc \in {"idle", "start", "raised"}
        /\ pc = "raised" => err = ErrNoPrepare /\ IsValueError(err)
        /\ i = 0 /\ log = <<>> /\ parts = <<>> /\ prepared = <<>>
        /\ \A id \in IdSet : Untouched(id)

C4_Witness ==
    NameGiven /\ ~cfgHasPrepare /\ pc = "raised" /\ err = ErrNoPrepare

\* The errors raised inside prepare_dataset.
PrepareErrors ==
    {ErrNoName, ErrNoPrepare, ErrUnknownName, ErrNotCallable, ErrOpener,
     ErrStoreMissing, ErrComposite, ErrMerge, ErrApply, ErrWrite}

\* Nothing of the current identifier was attempted twice.
NothingRepeated ==
    /\ \A p, q \in DOMAIN log : p # q => log[p] # log[q]
    /\ \A id \in IdSet : writes[id] <= 1

\* C7 as claimed: when processing of identifier k raises, no store has been
\* written for identifier k or a later one.
C7_AsClaimed ==
    pc = "raised" =>
        \A k \in DOMAIN ids : k >= i => disk[ids[k]] = disk0[ids[k]]

\* C7 as amended: an error of identifier k leaves prepare_dataset at once;
\* nothing was attempted twice; the stores of identifiers 1..k-1 are as
\* written; no store of a later identifier is touched; and the store of
\* identifier k is touched only if it is its own write that raised, which may
\* leave it incomplete.
C7_NoRetryNoRecovery ==
    /\ err \in PrepareErrors => pc = "raised"
    /\ NothingRepeated
    /\ pc = "raised" =>
         \A k \in DOMAIN ids :
            /\ k < i => IF save THEN WrittenOnce(ids[k]) ELSE Untouched(ids[k])
            /\ k > i => Untouched(ids[k])
            /\ k = i =>
                 \/ disk[ids[k]] = disk0[ids[k]]
                 \/ err = ErrWrite /\ disk[ids[k]] = "partial"

\* The write of the second identifier raised and left an incomplete store;
\* the first identifier's store is as written.
C7_Witness ==
    /\ pc = "raised" /\ err = ErrWrite /\ i = 2 /\ save
    /\ disk[ids[1]] = "new" /\ disk[ids[2]] = "partial"
    /\ Has("open") /\ Has("write")

\* The stages of the lifecycle of one identifier.
Stage(e) ==
    CASE e.ev \in {"open", "read", "preprocess"} -> 1
      [] e.ev = "merge" -> 2
      [] e.ev = "apply" -> 3
      [] e.ev = "write" -> 4

\* C8: for each identifier the order is open -> transform -> write: every
\* realm of 'uses' is opened (preprocess running inside the opener, right
\* after the open) before the merge, 'apply' runs once after the merge, the
\* store is written after 'apply'; no 'apply' precedes a 'preprocess'.
C8_Lifecycle ==
    /\ \A p, q \in DOMAIN log : p < q => Stage(log[p]) <= Stage(log[q])
    /\ \A p, q \in DOMAIN log :
         (p # q /\ Stage(log[p]) > 1) => log[p].ev # log[q].ev
    /\ \A p \in DOMAIN log :
         log[p].ev = "preprocess" =>
            /\ params.preprocess
            /\ p > 1 /\ log[p - 1] = Ev("open", log[p].r)
    /\ Has("merge") =>
         \A r \in DOMAIN params.uses :
            \E p \in DOMAIN log :
               /\ log[p].r = r
               /\ log[p].ev = (IF params.uses[r].realm = PreparedRealm
                                 THEN "read" ELSE "open")
               /\ (log[p].ev = "open" /\ params.preprocess) =>
                     (p < Len(log) /\ log[p + 1] = Ev("preprocess", r))
    /\ Has("apply") => params.apply /\ Has("merge")
    /\ Has("write") => Has("merge") /\ (params.apply => Has("apply"))
    /\ pc \in {"apply", "save"} => Has("merge")

\* An identifier with two raw realms, preprocess and apply has been written.
C8_Witness ==
    /\ pc = "loop" /\ Has("write") /\ Has("apply")
    /\ \E p \in DOMAIN log : log[p] = Ev("preprocess", 2)

\* The (year, member, variable) asked for whose files DATA_DIR does not hold,
\* and the ValueError the lookup of one of them raises.
MissingKeys == {k \in Requested : fs[k] # FilesOk}
LookupErrorOf(k) ==
    IF version = "latest" /\ fs[k] = NoVersionDir THEN ErrNoVersions ELSE ErrNoFiles
CmipValueErrors == {ErrExperiment, ErrNoVersions, ErrNoFiles}

\* C5: in the CMIP6 openers, if for any requested (year,) member and variable
\* no version directory exists (version 'latest') or no file matches, the
\* opener raises a ValueError and returns no dataset, for the first member
\* (looked up at once) and for the others (looked up in the delayed open).
C5_MissingFilesRaise ==
    cmipPc \in {"returned", "raised"} =>
        /\ MissingKeys # {} =>
              /\ cmipPc = "raised"
              /\ cmipErr \in CmipValueErrors
              /\ cmipDs = {}
        /\ cmipErr \in {ErrNoVersions, ErrNoFiles} =>
              \E k \in MissingKeys : cmipErr = LookupErrorOf(k)
        /\ cmipPc = "returned" =>
              cmipDs = {variables[c] : c \in DOMAIN variables}

\* The hindcast opener raised in compute(): the files of the first year and
\* member are there for every variable, a version directory of another
\* member is not.
C5_Witness ==
    /\ opener = "_cmip6_dcppA_hindcast" /\ version = "latest"
    /\ cmipPc = "raised" /\ cmipErr = ErrNoVersions
    /\ nVars = Len(variables) /\ Len(variables) = 2
    /\ \A k \in MissingKeys : k[2] # members[1]

\* The coordinates the data and the area file share, and how they compare.
Shared(c) == areaOpened[c] # NoCoord /\ dsCoords[c] # NoCoord
ValuesEqual(c) == ArrayEquiv(dsCoords[c], areaOpened[c])
WithinTolerance(c) ==
    /\ Len(dsCoords[c]) = Len(areaOpened[c])
    /\ \A k \in DOMAIN dsCoords[c] :
         Abs(dsCoords[c][k] - areaOpened[c][k]) * RtolInv <= Abs(areaOpened[c][k])
Inconsistent(c) == Shared(c) /\ ~ValuesEqual(c) /\ ~WithinTolerance(c)

\* C6 as claimed: an inconsistent shared coordinate makes the opener raise a
\* ValueError.
C6_AsClaimed ==
    (areaPc = "raised" /\ \E c \in CoordSet : Inconsistent(c)) =>
        areaErr \in {ErrAssign}

\* C6 as amended: a shared coordinate whose values differ by more than the
\* relative tolerance 1e-06 makes npt.assert_allclose raise an AssertionError
\* (not a ValueError) and no dataset is returned; equal values leave the
\* area's coordinate as it is, values that differ within the tolerance
\* replace it by the data's coordinate.
C6_AreaCoordinates ==
    /\ \A k \in DOMAIN CoordNames :
         LET c == CoordNames[k] IN
           IF k <= nCoords
             THEN /\ ~Inconsistent(c)
                  /\ area[c] = (IF Shared(c) /\ ~ValuesEqual(c)
                                  THEN dsCoords[c] ELSE areaOpened[c])
             ELSE area[c] = areaOpened[c]
    /\ areaErr = ErrAssertion <=>
         /\ areaPc = "raised"
         /\ nCoords < Len(CoordNames)
         /\ Inconsistent(CoordNames[nCoords + 1])
    /\ (\E c \in CoordSet : Inconsistent(c)) =>
         /\ areaPc # "returned"
         /\ assigned = NoCoords
         /\ areaPc = "raised" => areaErr = ErrAssertion

\* The check raised at the second coordinate after the first one, within
\* tolerance, had replaced the area's coordinate.
C6_Witness ==
    /\ areaPc = "raised" /\ areaErr = ErrAssertion /\ nCoords = 1
    /\ area["lat"] # areaOpened["lat"] /\ area["lat"] = dsCoords["lat"]
    /\ Len(dsCoords["lon"]) = Len(areaOpened["lon"])

\* C9: the function composite_function returns applies the functions in the
\* dictionary's key order, the first key first, each with its kwargs (None
\* as no kwargs); for an empty dictionary it is the identity.
C9_CompositeInKeyOrder ==
    compPc = "called" =>
        /\ result = x \o [k \in DOMAIN function_dict |->
                            <<function_dict[k].fn,
                              IF function_dict[k].kws = NoneKwargs
                                THEN {} ELSE function_dict[k].kws.kw>>]
        /\ function_dict = <<>> => result = x

\* A composite of two functions, the first with kwargs None, the second with
\* a keyword argument, has been called.
C9_Witness ==
    /\ compPc = "called" /\ Len(function_dict) = 2
    /\ function_dict[1].kws = NoneKwargs
    /\ function_dict[2].kws = Kwargs({<<"a", 1>>})

\* C10: main starts the client, then generates the grid files, then calls
\* prepare_dataset on <config_dir>/<config> with save_dir; prepare_dataset is
\* not started if grid generation raises; the client is closed on every way
\* out of main on which it was started.
C10_MainOrder ==
    entry = "main" =>
        /\ mainPc \in {"grid", "prepare"} => client = "running"
        /\ pc # "idle" =>
              /\ mainPc \in {"prepare", "exited"}
              /\ gridFiles = {"atmos", "ocean"}
              /\ callArgs = [config |-> <<cli.config_dir, "/", cli.config>>,
                             save_dir |-> cli.save_dir, save |-> TRUE]
              /\ save
        /\ err \in {ErrGrid, ErrClient} => pc = "idle" /\ mainPc = "exited"
        /\ mainPc = "exited" =>
              client = (IF err = ErrClient THEN "none" ELSE "closed")

\* main has ended because prepare_dataset raised, and the client is closed.
C10_Witness ==
    /\ entry = "main" /\ mainPc = "exited" /\ pc = "raised"
    /\ client = "closed" /\ i = 2

\* The positions of T at which both indices are defined: three days from
\* there on and thirty days before.
BothDefined(T) == {k \in DOMAIN T : k > Window30 /\ k + Window3 - 1 <= Len(T)}
\* The mean of T over the positions a..b.
MeanT(T, a, b) == Mean([k \in 1..(b - a + 1) |-> T[a + k - 1].v])
RMax(a, b) == IF RLess(a, b) THEN b ELSE a

\* C11: calculate_EHF returns max(0, EHI_sig) * max(1, EHI_accl) wherever
\* both indices are defined, with EHI_sig the three-day mean from day i on
\* minus T_p95 and EHI_accl that mean minus the mean of the thirty days
\* before; the returned EHF is never negative.
C11_EHFAsDocumented ==
    (call.fn = "calculate_EHF" /\ ret.kind = "return") =>
        \A k \in BothDefined(call.T) :
            LET m3 == MeanT(call.T, k, k + 2)
                sig == RSub(m3, local.T_p95)
                accl == RSub(m3, MeanT(call.T, k - 30, k - 1))
            IN /\ ret.value[k] = RMul(RMax(Num(0), sig), RMax(Num(1), accl))
               /\ ~RLess(ret.value[k], Num(0))

\* The 20-step accumulations that are defined, each with the drought factor
\* returned for it, and which of them lie in clim_period.
DroughtPairs ==
    IF call.ds.layout = "time"
      THEN {[p20 |-> local.p20[k].v, D |-> ret.value.D[k],
             inPeriod |-> call.clim_period[1] <= local.p20[k].t
                            /\ local.p20[k].t <= call.clim_period[2]] :
               k \in {k \in DOMAIN local.p20 : ~IsNaN(local.p20[k].v)}}
      ELSE {[p20 |-> local.p20.data[c[1]][c[2]], D |-> ret.value.D[c[1]][c[2]],
             inPeriod |-> PeriodMask(local.p20, call.clim_period)[c[1]][c[2]]] :
               c \in {c \in (DOMAIN local.p20.init) \X (DOMAIN local.p20.lead) :
                        ~IsNaN(local.p20.data[c[1]][c[2]])}}
ClimPairs == {q \in DroughtPairs : q.inPeriod}

\* C12: the drought factor lies between 0 and 10 at every step that has a
\* 20-step accumulation, inside clim_period or not, and is 10 at the minimum
\* and 0 at the maximum accumulation of clim_period.
C12_DroughtFactorAsDocumented ==
    (call.fn = "calculate_ffdi" /\ ret.kind = "return") =>
        /\ \A q \in DroughtPairs :
              ~RLess(q.D, Num(0)) /\ ~RLess(Num(10), q.D) /\ ~IsNaN(q.D)
        /\ \A q \in ClimPairs :
              /\ (\A o \in ClimPairs : ~RLess(o.p20, q.p20)) => q.D = Num(10)
              /\ (\A o \in ClimPairs : ~RLess(q.p20, o.p20)) => q.D = Num(0)

\* The climatology of a timeseries over a period, for the group of time t:
\* the mean of the entries of the period that are in the group of t (of all
\* entries of the period if there is no frequency).
InPeriod(t, period) == period[1] <= t /\ t <= period[2]
MeanOverPeriod(series, period, frequency, t) ==
    Mean(Values(SelectSeq(series,
        LAMBDA e : /\ InPeriod(e.t, period)
                   /\ frequency # None
                        => GroupOf(e.t, frequency) = GroupOf(t, frequency))))
\* The climatology of init/lead data over a period, for init a and lead c:
\* the mean over the members and over the inits of the month of init a whose
\* time at lead c is in the period.
HindcastMeanOverPeriod(ds, period, a, c) ==
    LET rows == SelectSeq(Indices(Len(ds.init)),
                   LAMBDA b : /\ MonthOf(ds.init[b]) = MonthOf(ds.init[a])
                              /\ InPeriod(ds.init[b] + ds.lead[c], period))
    IN Mean(Flatten([m \in DOMAIN ds.planes |->
                        [b \in DOMAIN rows |-> ds.planes[m][rows[b]][c]]]))
\* What the documentation says is done with a value and the two
\* climatologies.
AsDocumented(method, v, ds_clim, obsv_clim) ==
    IF method = "multiplicative" THEN RDiv(v, RDiv(ds_clim, obsv_clim))
    ELSE RSub(v, RSub(ds_clim, obsv_clim))

\* C13: correct_bias divides ds by the ratio of the climatology of ds to the
\* observed climatology of the period (method 'multiplicative') or subtracts
\* their difference (method 'additive'), for a timeseries and for a hindcast.
C13_CorrectBiasAsDocumented ==
    (call.fn = "correct_bias" /\ ret.kind = "return") =>
        IF call.ds.layout = "time"
          THEN \A k \in DOMAIN call.ds.series :
                 LET t == call.ds.series[k].t IN
                   ret.value.series[k].v =
                     AsDocumented(call.method, call.ds.series[k].v,
                        MeanOverPeriod(call.ds.series, call.period,
                                       call.frequency, t),
                        MeanOverPeriod(call.obsv, call.period,
                                       call.frequency, t))
          ELSE \A m \in DOMAIN call.ds.planes :
                 \A a \in DOMAIN call.ds.init :
                   \A c \in DOMAIN call.ds.lead :
                     \A d \in Where(ret.value.lead, call.ds.lead[c]) :
                       ret.value.planes[m][a][d] =
                         AsDocumented(call.method, call.ds.planes[m][a][c],
                            HindcastMeanOverPeriod(call.ds, call.period, a, c),
                            MeanOverPeriod(call.obsv, call.period,
                                           call.frequency,
                                           call.ds.init[a] + call.ds.lead[c]))

\* C14: with frequency None and a valid method correct_bias returns the
\* corrected data and does not raise, for a timeseries and for a hindcast.
C14_FrequencyNoneAccepted ==
    (/\ call.fn = "correct_bias" /\ utilsPc = "done"
     /\ call.frequency = None
     /\ call.method \in {"additive", "multiplicative"}
     /\ call.ds.layout \in {"time", "init"})
        => ret.kind = "return"


\* C15: keep_period keeps exactly the data whose time is in the closed
\* interval [period[0], period[1]]: a timeseries is cut to the entries of the
\* interval, init/lead data keep every entry of the interval and have the
\* others removed or missing, and data of neither layout raise the ValueError.
C15_KeepPeriodAsDocumented ==
    (call.fn = "keep_period" /\ utilsPc = "done") =>
        CASE call.ds.layout = "time" ->
               /\ ret.kind = "return"
               /\ ret.value = TimeData(SelectSeq(call.ds.series,
                                 LAMBDA e : InPeriod(e.t, call.period)))
          [] call.ds.layout = "init" ->
               /\ ret.kind = "return"
               /\ \A m \in DOMAIN call.ds.planes :
                    \A a \in DOMAIN call.ds.init :
                      \A c \in DOMAIN call.ds.lead :
                        LET as == Where(ret.value.init, call.ds.init[a])
                            cs == Where(ret.value.lead, call.ds.lead[c])
                        IN IF InPeriod(call.ds.init[a] + call.ds.lead[c],
                                       call.period)
                             THEN \E b \in as : \E d \in cs :
                                    ret.value.planes[m][b][d] =
                                        call.ds.planes[m][a][c]
                             ELSE \A b \in as : \A d \in cs :
                                    IsNaN(ret.value.planes[m][b][d])
               /\ \A b \in DOMAIN ret.value.init :
                    Where(call.ds.init, ret.value.init[b]) # {}
               /\ \A d \in DOMAIN ret.value.lead :
                    Where(call.ds.lead, ret.value.lead[d]) # {}
          [] OTHER -> ret = Raised(ErrKeepPeriod)


\* What a call of coarsen, rolling_mean or resample makes of the whole
\* array, from its beginning on.
FromTheBeginning(c) ==
    CASE c.fn = "coarsen" -> CoarsenOf(c.ds, c.window_size)
      [] c.fn = "rolling_mean" -> RollingOf(c.ds, c.window_size)
      [] c.fn = "resample" -> ResampleOf(c.ds, c.freq, c.min_samples)
BeforeFirst(c, p) == p < c.ds[1].t
AfterLast(c, p) == p > c.ds[Len(c.ds)].t

\* C16: in coarsen, rolling_mean and resample a start point outside the
\* range of the coordinate, before its first or after its last value, makes
\* the operation start at the beginning of the array: with one such start
\* point the result is the result with no start point, and with several each
\* of them contributes that result.
C16_StartOutsideRange ==
    (/\ call.fn \in {"coarsen", "rolling_mean", "resample"}
     /\ utilsPc = "done"
     /\ call.start_points # None
     /\ \A k \in DOMAIN call.start_points :
            \/ BeforeFirst(call, call.start_points[k])
            \/ AfterLast(call, call.start_points[k]))
        => ret = Returned(SortBy(Concat([k \in DOMAIN call.start_points |->
                                            FromTheBeginning(call)])))


\* The samples of the group of resample that has label g.
SamplesOf(c, g) ==
    SelectSeq(c.ds, LAMBDA e : (e.t \div MonthsOf(c.freq)) * MonthsOf(c.freq) = g)
NoneMissing(samples) == \A k \in DOMAIN samples : ~IsNaN(samples[k].v)

DimsOf(c) == {c.dim.names[k] : k \in DOMAIN c.dim.names}

\* C18: round_to_start_of_month maps every date of the given dimension to the
\* first day, 00:00, of the month of that date, and it is idempotent: a date
\* that is at the start of its month already comes back unchanged.
C18_StartOfOwnMonth ==
    (call.fn = "round_to_start_of_month" /\ ret.kind = "return") =>
        \A d \in DimsOf(call) :
            \A k \in DOMAIN call.ds[d] :
                /\ ret.value[d][k] = Date(call.ds[d][k].month, 1, 0)
                /\ call.ds[d][k] = Date(call.ds[d][k].month, 1, 0)
                     => ret.value[d][k] = call.ds[d][k]


EarlierId(v) == \E k \in 1..(i - 1) : ids[k] = v
LaterId(v) == \E k \in (i + 1)..Len(ids) : ids[k] = v
\* The next realm of the current identifier is 'prepared'.
ReadsPrepared ==
    /\ pc = "open" /\ j < Len(params.uses)
    /\ params.uses[j + 1].realm = PreparedRealm
\* A step of prepare_dataset: the identifiers are begun one after the other,
\* each when the one before it is done; the step that reads the realm
\* 'prepared' applies no preprocess, fails at the reading identifier if a
\* store of a later identifier is not on disk, and otherwise sees the store
\* of every earlier identifier v as written[v].
PreparedStep(written) ==
    /\ i' # i => /\ i' = i + 1
                 /\ prepared = SubSeq(ids, 1, i)
    /\ ReadsPrepared =>
         LET u == params.uses[j + 1] IN
           /\ \A p \in DOMAIN log' : log'[p] # Ev("preprocess", j + 1)
           /\ IF \E k \in DOMAIN u.vars :
                    LaterId(u.vars[k]) /\ disk0[u.vars[k]] = "absent"
                THEN pc' = "raised" /\ err' = ErrStoreMissing /\ i' = i
                ELSE pc' = "open" =>
                       /\ Len(parts') = j + 1
                       /\ parts'[j + 1].realm = PreparedRealm
                       /\ ~parts'[j + 1].pre
                       /\ \A k \in DOMAIN u.vars :
                            EarlierId(u.vars[k]) =>
                                parts'[j + 1].src[k] = written[u.vars[k]]
WrittenByThisRun == [v \in IdSet |-> "new"]
WrittenOrLeft == [v \in IdSet |-> IF save THEN "new" ELSE disk0[v]]

\* C20 as claimed: the identifiers are processed in config order; the realm
\* 'prepared' is read without preprocess; the store of an earlier identifier
\* is seen as this run wrote it; a later identifier whose store is not on disk
\* makes the run fail at the reading identifier.
C20_AsClaimed == [][PreparedStep(WrittenByThisRun)]_vars

\* C20 as amended: the same, but the store of an earlier identifier is seen
\* as this run wrote it only with save=True; with save=False the run writes
\* no store and the store is seen as it was on disk before the run.
C20_PreparedInOrder == [][PreparedStep(WrittenOrLeft)]_vars

\* The second identifier, which has a preprocess, has read the store that
\* this run wrote for the first one in place of an older one.
C20_Witness ==
    /\ i = 2 /\ pc = "open" /\ save /\ params.preprocess
    /\ disk0[ids[1]] = "old"
    /\ \E r \in DOMAIN parts :
         /\ parts[r] = Part(PreparedRealm, FALSE, <<"new">>)
         /\ params.uses[r].vars = <<ids[1]>>


\* The observations of the period that are in the frequency group of time t.
ObsvOfGroup(c, t) ==
    SelectSeq(c.obsv, LAMBDA e : /\ InPeriod(e.t, c.period)
                                 /\ GroupOf(e.t, c.frequency)
                                      = GroupOf(t, c.frequency))
\* The entries of a hindcast that the period keeps, and the inits and leads
\* that have such an entry: the ones a bias is calculated for.
KeptEntry(c, a, b) == InPeriod(c.ds.init[a] + c.ds.lead[b], c.period)
KeptMonth(c, a) ==
    \E o \in DOMAIN c.ds.init : \E b \in DOMAIN c.ds.lead :
        MonthOf(c.ds.init[o]) = MonthOf(c.ds.init[a]) /\ KeptEntry(c, o, b)
KeptLead(c, b) == \E o \in DOMAIN c.ds.init : KeptEntry(c, o, b)
HindcastWithFrequency ==
    /\ call.fn = "correct_bias" /\ utilsPc = "done"
    /\ call.ds.layout = "init"
    /\ call.frequency # None
    /\ call.method \in {"additive", "multiplicative"}

\* C21: correct_bias of a hindcast with a frequency corrects every lead with
\* the observed climatology of the group (the month, the year) of the valid
\* time at that lead, also where the leads wrap around the groups or stay in
\* one group; and where the group of a valid time is not among the groups of
\* the observed climatology the call raises: no other group's climatology
\* is used.
C21_AlignedToLeads ==
    HindcastWithFrequency =>
        /\ ret.kind = "return" =>
             \A m \in DOMAIN call.ds.planes :
               \A a \in DOMAIN call.ds.init :
                 \A b \in DOMAIN call.ds.lead :
                   \A d \in Where(ret.value.lead, call.ds.lead[b]) :
                     LET t == call.ds.init[a] + call.ds.lead[b]
                         obsv_clim == Mean(Values(ObsvOfGroup(call, t)))
                         hcst_clim == HindcastMeanOverPeriod(call.ds,
                                          call.period, a, b)
                     IN ret.value.planes[m][a][d] =
                          IF call.method = "additive"
                            THEN RSub(call.ds.planes[m][a][b],
                                      RSub(hcst_clim, obsv_clim))
                            ELSE RDiv(call.ds.planes[m][a][b],
                                      RDiv(hcst_clim, obsv_clim))
        /\ (\E a \in DOMAIN call.ds.init : \E b \in DOMAIN call.ds.lead :
               /\ KeptMonth(call, a) /\ KeptLead(call, b)
               /\ ObsvOfGroup(call, call.ds.init[a] + call.ds.lead[b]) = <<>>)
              => ret.kind = "raise"

\* A hindcast of December with the leads 0 and 1, whose valid times are in
\* December and in January, is corrected at both leads, each with the
\* observed climatology of its month.
C21_Witness ==
    /\ HindcastWithFrequency /\ ret.kind = "return"
    /\ call.frequency = Given("month")
    /\ \E a \in DOMAIN call.ds.init :
         /\ MonthOf(call.ds.init[a]) = MonthsPerYear
         /\ call.ds.lead = <<0, 1>> /\ ret.value.lead = <<0, 1>>
         /\ KeptEntry(call, a, 1) /\ KeptEntry(call, a, 2)
         /\ IsFinite(ret.value.planes[1][a][1])
         /\ IsFinite(ret.value.planes[1][a][2])
         /\ Mean(Values(ObsvOfGroup(call, call.ds.init[a])))
              # Mean(Values(ObsvOfGroup(call, call.ds.init[a] + 1)))

====
